------------------------ MODULE InPlaceArchiveProofs ------------------------
(***************************************************************************)
(* Proofs about InPlaceArchive, for every set of paths and contents, every *)
(* page layout and every capacity: types and the archive between calls in  *)
(* the first part, the pages in the second: their ids and cells are apart  *)
(* from each other, they hold what was added, and nothing but a deletion   *)
(* of the file they belong to changes them.                                *)
(***************************************************************************)
EXTENDS InPlaceArchive, FiniteSetTheorems, WellFoundedInduction, TLAPS

-----------------------------------------------------------------------------
(* The inductive invariant.                                                *)

\* Which calls are possible in which mode.
ModeInv ==
  /\ mode = "closed" => pc = "idle"
  /\ mode = "created" => pc \in {"idle", "write_page", "write_catalog", "write_footer"}
  /\ mode = "created" /\ pc \in {"write_catalog", "write_footer"} => job.call = "close"

\* The loops over pages stay within the pages.
LoopInv ==
  /\ pc = "write_page" => Len(job.pages) < Len(Payload[job.content])
  /\ pc = "patch_page" =>
       wcat[job.path] # NoEntry /\ job.n <= Len(wcat[job.path].pages)

\* The cells from off on are those of cat, and catalog and footer of cat.
CatalogWritten(off, cat) ==
  /\ off + CatalogSize(cat) <= disk_len
  /\ \A k \in 0 .. CatalogSize(cat) - 1 : disk[off + k] = CatalogPart(cat, k)
FooterWritten(off, cat) ==
  /\ CatalogWritten(off, cat)
  /\ off + CatalogSize(cat) + 1 <= disk_len
  /\ disk[off + CatalogSize(cat)] = Footer(off, cat)

\* A closed archive is readable, with its pages before the catalog.
ClosedInv ==
  mode = "closed" =>
    /\ CatalogReadable
    /\ PagesBelow(DiskCatalog, FooterOffset)

\* A created archive grows at its end.
CreatedInv ==
  mode = "created" /\ pc \in {"idle", "write_page"} =>
    append_pos = disk_len /\ PagesBelow(wcat, append_pos)

\* Between calls disk, reader and writer agree.
IdleInv ==
  mode = "opened" /\ pc = "idle" =>
    /\ CatalogReadable
    /\ DiskCatalog = rcat
    /\ wcat = rcat
    /\ FooterOffset = catalog_offset
    /\ append_pos = disk_len
    /\ PagesBelow(wcat, catalog_offset)

\* While pages are written or patched, the others are before the catalog.
PagesInv ==
  /\ pc = "write_page" =>
       \A n \in DOMAIN job.pages :
         job.pages[n].offset + 1 + job.pages[n].size <= append_pos
  /\ mode = "opened" /\ pc = "write_page" =>
       catalog_offset <= append_pos /\ append_pos <= disk_len
       /\ PagesBelow(wcat, catalog_offset)
  /\ pc = "patch_page" =>
       catalog_offset <= disk_len /\ PagesBelow(wcat, catalog_offset)

\* The commit, step by step.
CommitInv ==
  /\ pc = "write_catalog" =>
       /\ append_pos <= disk_len
       /\ job.call = "close" => append_pos = disk_len
       /\ PagesBelow(wcat, append_pos)
  /\ pc = "write_footer" =>
       /\ CatalogWritten(job.offset, wcat)
       /\ append_pos = job.offset + CatalogSize(wcat)
       /\ job.call = "close" => append_pos = disk_len
  /\ pc \in {"truncate", "reload"} =>
       /\ FooterWritten(job.offset, wcat)
       /\ append_pos = job.offset + CatalogSize(wcat) + 1
  /\ pc \in {"write_footer", "truncate", "reload"} => PagesBelow(wcat, job.offset)
  /\ pc = "reload" => append_pos = disk_len /\ catalog_offset = job.offset

IInv ==
  /\ TypeOK /\ ModeInv /\ LoopInv
  /\ ClosedInv /\ CreatedInv /\ IdleInv /\ PagesInv /\ CommitInv
-----------------------------------------------------------------------------
(* Facts about data.                                                       *)

\* A non-empty finite set of naturals has a largest element.
LEMMA LargestExists ==
  ASSUME NEW S \in SUBSET Nat, IsFiniteSet(S), S # {}
  PROVE  \E m \in S : \A j \in S : j <= m
<1> DEFINE From(n) == {k \in S : n <= k}
           Tails == {From(n) : n \in S}
<1>1. Tails \subseteq FiniteSubsetsOf(S)
  BY FS_Subset DEF FiniteSubsetsOf
<1>2. Tails # {}
  OBVIOUS
<1>3. PICK x \in Tails : \A y \in Tails : ~ (<<y, x>> \in StrictSubsetOrdering(S))
  <2> HIDE DEF Tails
  <2> QED
    BY <1>1, <1>2, FS_StrictSubsetOrderingWellFounded, WFMin
<1>4. PICK m \in S : x = From(m)
  BY <1>3
<1>5. ASSUME NEW j \in S, ~ (j <= m) PROVE FALSE
  <2>1. From(j) \subseteq From(m) /\ From(j) # From(m)
    <3>1. m \in From(m) /\ m \notin From(j)
      BY <1>5
    <3>2. From(j) \subseteq From(m)
      <4> SUFFICES ASSUME NEW k \in S, j <= k PROVE m <= k
        OBVIOUS
      <4>1. m \in Nat /\ j \in Nat /\ k \in Nat
        OBVIOUS
      <4> QED
        BY <1>5, <4>1
    <3> QED
      BY <3>1, <3>2
  <2>2. <<From(j), From(m)>> \in StrictSubsetOrdering(S)
    BY <2>1 DEF StrictSubsetOrdering
  <2> QED
    BY <1>3, <1>4, <2>2
<1> QED
  BY <1>5

\* The number of files and the size of a catalog.
LEMMA CatalogSizeType ==
  ASSUME NEW cat
  PROVE  /\ FileCount(cat) \in Nat
         /\ CatalogSize(cat) \in Nat \ {0}
<1>1. FileCount(cat) \in Nat
  BY PathAssumption, FS_Subset, FS_CardinalityType DEF FileCount
<1> QED
  BY <1>1 DEF CatalogSize

\* The page ids of a catalog are finitely many naturals.
LEMMA PageIdsFinite ==
  ASSUME NEW cat \in Catalog
  PROVE  PageIds(cat) \in SUBSET Nat /\ IsFiniteSet(PageIds(cat))
<1> DEFINE Named == {p \in Path : cat[p] # NoEntry}
           Ids(p) == {cat[p].pages[n].id : n \in DOMAIN cat[p].pages}
           F == [p \in Named |-> Ids(p)]
           T == {Ids(p) : p \in Named}
<1>1. ASSUME NEW p \in Named
      PROVE  Ids(p) \in SUBSET Nat /\ IsFiniteSet(Ids(p))
  <2>1. cat[p].pages \in Seq(PageRef)
    BY DEF Catalog, Entry
  <2> DEFINE len == Len(cat[p].pages)
             G == [n \in 1 .. len |-> cat[p].pages[n].id]
  <2>2. len \in Nat /\ DOMAIN cat[p].pages = 1 .. len
    BY <2>1
  <2>3. \A n \in 1 .. len : cat[p].pages[n] \in PageRef
    BY <2>1
  <2>4. Ids(p) \in SUBSET Nat
    BY <2>2, <2>3 DEF PageRef
  <2>5. G \in Surjection(1 .. len, Ids(p))
    BY <2>2 DEF Surjection
  <2>6. IsFiniteSet(1 .. len)
    BY <2>2, FS_Interval
  <2> HIDE DEF G, Ids
  <2> QED
    BY <2>4, <2>5, <2>6, FS_Surjection
<1>2. F \in Surjection(Named, T)
  BY DEF Surjection
<1>3. IsFiniteSet(Named)
  BY PathAssumption, FS_Subset
<1>4. IsFiniteSet(T)
  <2> HIDE DEF F, T, Named
  <2> QED
    BY <1>2, <1>3, FS_Surjection
<1>5. \A s \in T : IsFiniteSet(s) /\ s \in SUBSET Nat
  BY <1>1
<1>6. PageIds(cat) = UNION T
  BY DEF PageIds
<1> HIDE DEF T
<1> QED
  BY <1>4, <1>5, <1>6, FS_UNION

\* The first page id of a session.
LEMMA NextPageIdType ==
  ASSUME NEW cat \in Catalog
  PROVE  NextPageId(cat) \in Nat
<1>1. CASE PageIds(cat) = {}
  BY <1>1 DEF NextPageId
<1>2. CASE PageIds(cat) # {}
  <2> DEFINE Largest(i) == \A j \in PageIds(cat) : j <= i
  <2>1. PageIds(cat) \in SUBSET Nat /\ IsFiniteSet(PageIds(cat))
    BY PageIdsFinite
  <2>2. \E m \in PageIds(cat) : Largest(m)
    BY <1>2, <2>1, LargestExists
  <2>3. (CHOOSE i \in PageIds(cat) : Largest(i)) \in PageIds(cat)
    BY <2>2, Zenon
  <2> QED
    BY <1>2, <2>1, <2>3 DEF NextPageId
<1> QED
  BY <1>1, <1>2

\* What the functions that make cells return is a cell.
LEMMA CellTypes ==
  /\ Zero \in Cell /\ Magic \in Cell /\ Damaged \in Cell
  /\ \A id \in Nat, d \in BOOLEAN : PageHeader(id, d) \in Cell
  /\ \A c \in Content, n \in Nat, k \in Nat : Data(c, n, k) \in Cell
  /\ \A cat \in Catalog, k \in Nat : CatalogPart(cat, k) \in Cell
  /\ \A off \in Nat, cat \in Catalog : Footer(off, cat) \in Cell
  /\ \A cell \in Cell : Flagged(cell) \in Cell
<1>1. \A off \in Nat, cat \in Catalog : Footer(off, cat) \in Cell
  BY CatalogSizeType DEF Cell, Footer
<1>2. ASSUME NEW cell \in Cell PROVE Flagged(cell) \in Cell
  <2>1. CASE cell.kind = "page"
    <3>1. cell \in [kind: {"page"}, id: Nat, deleted: BOOLEAN]
      BY <2>1 DEF Cell, Zero, Magic, Damaged
    <3> QED
      BY <2>1, <3>1 DEF Flagged, Cell, PageHeader
  <2>2. CASE cell.kind # "page"
    BY <2>2 DEF Flagged, Cell
  <2> QED
    BY <2>1, <2>2
<1> QED
  BY <1>1, <1>2 DEF Cell, Zero, Magic, Damaged, PageHeader, Data, CatalogPart

\* Pages that end before a limit end before a later one.
LEMMA PagesBelowLater ==
  ASSUME NEW cat \in Catalog, NEW a \in Nat, NEW b \in Nat,
         PagesBelow(cat, a), a <= b
  PROVE  PagesBelow(cat, b)
<1> SUFFICES ASSUME NEW p \in Entries(cat), NEW n \in DOMAIN cat[p].pages
             PROVE  cat[p].pages[n].offset + 1 + cat[p].pages[n].size <= b
  BY DEF PagesBelow
<1>1. cat[p].pages[n] \in PageRef
  BY DEF Catalog, Entry, Entries
<1>2. cat[p].pages[n].offset + 1 + cat[p].pages[n].size <= a
  BY DEF PagesBelow
<1> QED
  BY <1>1, <1>2 DEF PageRef

\* A catalog that gets or loses an entry.
LEMMA PagesBelowPut ==
  ASSUME NEW cat \in Catalog, NEW limit \in Nat, PagesBelow(cat, limit),
         NEW p \in Path, NEW e \in Entry \cup {NoEntry},
         e # NoEntry => \A n \in DOMAIN e.pages :
           e.pages[n].offset + 1 + e.pages[n].size <= limit
  PROVE  /\ [cat EXCEPT ![p] = e] \in Catalog
         /\ PagesBelow([cat EXCEPT ![p] = e], limit)
<1> DEFINE new == [cat EXCEPT ![p] = e]
<1>1. new \in Catalog
  BY DEF Catalog
<1>2. ASSUME NEW q \in Entries(new), NEW n \in DOMAIN new[q].pages
      PROVE  new[q].pages[n].offset + 1 + new[q].pages[n].size <= limit
  <2>1. CASE q = p
    BY <2>1 DEF Entries, Catalog
  <2>2. CASE q # p
    BY <2>2 DEF Entries, Catalog, PagesBelow
  <2> QED
    BY <2>1, <2>2
<1> HIDE DEF new
<1>3. PagesBelow(new, limit)
  BY <1>2 DEF PagesBelow
<1> QED
  BY <1>1, <1>3 DEF new
-----------------------------------------------------------------------------
(* Facts about the file.                                                   *)

\* What a write of m cells does: the file does not shrink, the m cells are
\* those of the image, and the others keep what they held.
LEMMA TransferEffect ==
  ASSUME NEW w, NEW m \in Nat \ {0}, w.at \in Nat,
         disk_len \in Nat, disk \in [Cells -> Cell],
         \A k \in 0 .. m - 1 : w.image[k] \in Cell,
         Transfer(w, m)
  PROVE  /\ disk_len' = Larger(disk_len, w.at + m)
         /\ disk_len' \in Nat /\ disk_len <= disk_len' /\ w.at + m <= disk_len'
         /\ disk' \in [Cells' -> Cell]
         /\ \A k \in 0 .. m - 1 : disk'[w.at + k] = w.image[k]
         /\ \A i \in Cells : ~(w.at <= i /\ i < w.at + m) => disk'[i] = disk[i]
<1>1. disk_len' = Larger(disk_len, w.at + m)
  BY DEF Transfer
<1>2. disk_len' \in Nat /\ disk_len <= disk_len' /\ w.at + m <= disk_len'
  BY <1>1 DEF Larger
<1> DEFINE NewCell(i) == IF w.at <= i /\ i < w.at + m THEN w.image[i - w.at]
                         ELSE CellAt(i)
<1>3. disk' = [i \in 0 .. disk_len' - 1 |-> NewCell(i)]
  BY DEF Transfer
<1>4. ASSUME NEW i \in 0 .. disk_len' - 1 PROVE NewCell(i) \in Cell
  <2>1. CASE w.at <= i /\ i < w.at + m
    <3>1. i - w.at \in 0 .. m - 1
      BY <2>1, <1>2
    <3> QED
      BY <2>1, <3>1
  <2>2. CASE ~(w.at <= i /\ i < w.at + m)
    BY <2>2 DEF Cell, CellAt
  <2> QED
    BY <2>1, <2>2
<1>5. disk' \in [Cells' -> Cell]
  <2> HIDE DEF NewCell
  <2> QED
    BY <1>3, <1>4 DEF Cells
<1>6. ASSUME NEW k \in 0 .. m - 1 PROVE disk'[w.at + k] = w.image[k]
  <2>1. /\ w.at + k \in 0 .. disk_len' - 1
        /\ w.at <= w.at + k /\ w.at + k < w.at + m
        /\ (w.at + k) - w.at = k
    BY <1>2
  <2> QED
    BY <1>3, <2>1
<1>7. ASSUME NEW i \in Cells, ~(w.at <= i /\ i < w.at + m)
      PROVE  disk'[i] = disk[i]
  <2>1. i \in 0 .. disk_len' - 1
    BY <1>2 DEF Cells
  <2> QED
    BY <1>3, <1>7, <2>1 DEF CellAt
<1> QED
  BY <1>1, <1>2, <1>5, <1>6, <1>7

\* What the reader finds in a file that it can read.
LEMMA ReadableCatalog ==
  ASSUME TypeOK, CatalogReadable
  PROVE  /\ DiskCatalog \in Catalog
         /\ FooterOffset \in Nat /\ FooterOffset < disk_len
<1> DEFINE f == disk[disk_len - 1]
<1>1. f \in Cell /\ f.kind = "footer"
  BY DEF TypeOK, CatalogReadable, Cells
<1>2. f.offset \in Nat /\ f.size \in Nat
  BY <1>1 DEF Cell, Zero, Magic, Damaged
<1>3. f.offset < disk_len
  BY <1>2 DEF CatalogReadable, TypeOK
<1>4. disk[f.offset] \in Cell /\ disk[f.offset].kind = "catalog"
  BY <1>2, <1>3 DEF TypeOK, CatalogReadable, Cells
<1>5. disk[f.offset].catalog \in Catalog
  BY <1>4 DEF Cell, Zero, Magic, Damaged
<1> QED
  BY <1>2, <1>3, <1>5 DEF FooterOffset, DiskCatalog
-----------------------------------------------------------------------------
(* Opening, closing and reading keep the invariant.                        *)

\* The invariant holds of the archive that Init leaves behind.
LEMMA InitInv ==
  ASSUME Init
  PROVE  IInv
<1>1. EmptyCatalog \in Catalog /\ FileCount(EmptyCatalog) = 0
  <2>1. {p \in Path : EmptyCatalog[p] # NoEntry} = {}
    BY DEF EmptyCatalog
  <2> QED
    BY <2>1, FS_EmptySet DEF FileCount, EmptyCatalog, Catalog
<1>2. CatalogSize(EmptyCatalog) = 1
  BY <1>1 DEF CatalogSize
<1>3. disk[0] = Magic /\ disk[1] = CatalogPart(EmptyCatalog, 0) /\ disk[2] = Footer(1, EmptyCatalog)
  BY DEF Init
<1>4. disk \in [Cells -> Cell]
  <2>1. \A i \in 0 .. 2 : disk[i] \in Cell
    BY <1>1, <1>3, CellTypes
  <2> QED
    BY <2>1 DEF Init, Cells
<1>5. TypeOK
  BY <1>1, <1>4 DEF Init, TypeOK, JobOK
<1>6. CatalogReadable /\ DiskCatalog = EmptyCatalog
  <2>1. disk_len = 3
    BY DEF Init
  <2>2. \A k \in 0 .. 0 : disk[1 + k] = CatalogPart(EmptyCatalog, k)
    BY <1>3
  <2> QED
    BY <1>1, <1>2, <1>3, <2>1, <2>2
    DEF CatalogReadable, DiskCatalog, FooterOffset, Footer, CatalogPart
<1>7. PagesBelow(EmptyCatalog, FooterOffset)
  BY DEF PagesBelow, Entries, EmptyCatalog
<1> QED
  BY <1>5, <1>6, <1>7 DEF Init, IInv, ModeInv, LoopInv, ClosedInv, CreatedInv,
     IdleInv, PagesInv, CommitInv

\* A step that only answers, or none at all, keeps the invariant.
LEMMA AnswerInv ==
  ASSUME IInv, UNCHANGED <<io, memory, mode, pc, job>>
  PROVE  IInv'
<1>1. TypeOK'
  BY DEF IInv, TypeOK, JobOK, io, memory, Cells
<1>2. /\ ModeInv' = ModeInv /\ LoopInv' = LoopInv
      /\ CreatedInv' = CreatedInv /\ PagesInv' = PagesInv
  BY DEF ModeInv, LoopInv, CreatedInv, PagesInv, io, memory
<1>3. /\ CatalogReadable' = CatalogReadable
      /\ DiskCatalog' = DiskCatalog /\ FooterOffset' = FooterOffset
  BY DEF CatalogReadable, DiskCatalog, FooterOffset, io
<1>4. ClosedInv' /\ IdleInv'
  BY <1>3 DEF IInv, ClosedInv, IdleInv, io, memory
<1>5. CommitInv'
  BY DEF IInv, CommitInv, CatalogWritten, FooterWritten, io, memory
<1> QED
  BY <1>1, <1>2, <1>4, <1>5 DEF IInv

\* Create keeps the invariant: the new file is its header.
LEMMA CreateInv ==
  ASSUME IInv, Create
  PROVE  IInv'
<1>1. pc' = "idle" /\ mode' = "created"
  BY DEF IInv, ModeInv, Create
<1>2. EmptyCatalog \in Catalog
  BY DEF EmptyCatalog, Catalog
<1>3. disk' \in [Cells' -> Cell]
  BY CellTypes DEF Create, Cells
<1>4. TypeOK'
  BY <1>1, <1>2, <1>3 DEF IInv, TypeOK, JobOK, Create
<1>5. CreatedInv'
  BY DEF Create, CreatedInv, PagesBelow, Entries, EmptyCatalog
<1> QED
  BY <1>1, <1>4, <1>5 DEF IInv, ModeInv, LoopInv, ClosedInv, IdleInv, PagesInv,
     CommitInv

\* Open keeps the invariant: reader, writer and catalog_offset_ come from the
\* footer and catalog on disk.
LEMMA OpenInv ==
  ASSUME IInv, Open
  PROVE  IInv'
<1>1. pc' = "idle" /\ mode' = "opened" /\ job' = job
  BY DEF IInv, ModeInv, Open
<1>2. DiskCatalog \in Catalog /\ FooterOffset \in Nat
  BY ReadableCatalog DEF IInv, Open
<1>3. NextPageId(DiskCatalog) \in Nat
  BY <1>2, NextPageIdType
<1>4. TypeOK'
  BY <1>1, <1>2, <1>3 DEF IInv, TypeOK, JobOK, Open, Cells
<1>5. /\ CatalogReadable' /\ DiskCatalog' = DiskCatalog
      /\ FooterOffset' = FooterOffset
  BY DEF Open, CatalogReadable, DiskCatalog, FooterOffset
<1>6. IdleInv'
  BY <1>5 DEF IInv, ClosedInv, IdleInv, Open
<1> QED
  BY <1>1, <1>4, <1>6 DEF IInv, ModeInv, LoopInv, ClosedInv, CreatedInv, PagesInv,
     CommitInv

\* Close keeps the invariant: the catalog will be appended behind everything.
LEMMA CloseInv ==
  ASSUME IInv, Close
  PROVE  IInv'
<1>1. pc' = "write_catalog" /\ job' = [call |-> "close"]
      /\ UNCHANGED <<io, memory, mode>>
  BY DEF Close
<1>2. TypeOK'
  BY <1>1 DEF IInv, TypeOK, JobOK, CatalogJob, Cells, io, memory
<1>3. append_pos = disk_len /\ PagesBelow(wcat, append_pos)
  <2>1. CASE mode = "created"
    BY <2>1 DEF IInv, CreatedInv, Close
  <2>2. CASE mode = "opened"
    <3>1. FooterOffset \in Nat /\ FooterOffset < disk_len
      BY <2>2, ReadableCatalog DEF IInv, IdleInv, Close
    <3> QED
      BY <2>2, <3>1, PagesBelowLater DEF IInv, IdleInv, TypeOK, Close
  <2> QED
    BY <2>1, <2>2 DEF IInv, TypeOK, Close
<1>4. CommitInv'
  BY <1>1, <1>3 DEF IInv, TypeOK, CommitInv, io, memory
<1> QED
  BY <1>1, <1>2, <1>4 DEF IInv, ModeInv, LoopInv, ClosedInv, CreatedInv, IdleInv,
     PagesInv, Close
-----------------------------------------------------------------------------
(* Adding a file keeps the invariant.                                      *)

\* The start of AddFile keeps the invariant: the append position moves to the
\* catalog, which is behind every page.
LEMMA AddFileInv ==
  ASSUME IInv, NEW p \in Path, NEW c \in Content, AddFile(p, c)
  PROVE  IInv'
<1>1. /\ pc' = "write_page"
      /\ job' = [call |-> "add", path |-> p, content |-> c, pages |-> <<>>]
      /\ UNCHANGED <<disk, disk_len, memory, mode>> /\ file_size' = file_size
      /\ mode \in {"created", "opened"}
  BY DEF AddFile
<1>2. append_pos' \in Nat
  BY DEF AddFile, IInv, TypeOK
<1>3. TypeOK'
  BY <1>1, <1>2 DEF IInv, TypeOK, JobOK, AddJob, Cells, memory
<1>4. LoopInv'
  <2>1. Payload[c] # <<>> /\ Payload[c] \in Seq(Nat)
    BY PayloadAssumption
  <2>2. 0 < Len(Payload[c])
    BY <2>1
  <2> QED
    BY <1>1, <2>2 DEF LoopInv
<1>5. CreatedInv' /\ PagesInv'
  <2>1. CASE mode = "created"
    BY <1>1, <2>1 DEF IInv, CreatedInv, PagesInv, AddFile, memory
  <2>2. CASE mode = "opened"
    <3>1. FooterOffset = catalog_offset /\ FooterOffset \in Nat /\ FooterOffset < disk_len
      BY <2>2, ReadableCatalog DEF IInv, IdleInv, AddFile
    <3>2. append_pos' = catalog_offset
      BY <2>2 DEF AddFile
    <3> QED
      BY <1>1, <2>2, <3>1, <3>2
      DEF IInv, TypeOK, IdleInv, CreatedInv, PagesInv, AddFile, memory
  <2> QED
    BY <1>1, <2>1, <2>2
<1> QED
  BY <1>1, <1>3, <1>4, <1>5 DEF IInv, ModeInv, ClosedInv, IdleInv, CommitInv

\* The reference to the page that WritePage writes.
NewPage == [id |-> next_page_id, offset |-> append_pos,
            size |-> Payload[job.content][Len(job.pages) + 1]]

\* What both turns of the loop over pages do: the page goes to append_pos and
\* leaves the cells before it alone, the list of pages stays below the new
\* append position.
LEMMA PageWritten ==
  ASSUME IInv, pc = "write_page", AppendWrite(PageWrite)
  PROVE  /\ disk' \in [Cells' -> Cell] /\ disk_len' \in Nat
         /\ file_size' \in Nat /\ append_pos' \in Nat
         /\ append_pos < append_pos' /\ append_pos' <= disk_len'
         /\ append_pos = disk_len => append_pos' = disk_len'
         /\ PagesWritten \in Seq(PageRef)
         /\ Len(PagesWritten) = Len(job.pages) + 1
         /\ \A n \in DOMAIN PagesWritten :
              PagesWritten[n].offset + 1 + PagesWritten[n].size <= append_pos'
         /\ NewPage \in PageRef /\ PagesWritten = Append(job.pages, NewPage)
         /\ disk'[append_pos] = PageHeader(next_page_id, FALSE)
         /\ \A k \in 1 .. NewPage.size :
              disk'[append_pos + k] = Data(job.content, Len(job.pages) + 1, k)
         /\ \A i \in Cells : i < append_pos => disk'[i] = disk[i]
<1> DEFINE c == job.content
           n == Len(job.pages) + 1
           size == Payload[c][n]
<1>1. job \in AddJob
  BY DEF IInv, TypeOK, JobOK
<1>2. c \in Content /\ job.pages \in Seq(PageRef) /\ n \in 1 .. Len(Payload[c])
  BY <1>1, PayloadAssumption DEF AddJob, IInv, LoopInv
<1>3. size \in Nat
  BY <1>2, PayloadAssumption
<1>4. /\ append_pos \in Nat /\ disk_len \in Nat /\ file_size \in Nat
      /\ next_page_id \in Nat /\ disk \in [Cells -> Cell]
  BY DEF IInv, TypeOK
<1>5. /\ PageWrite.at = append_pos /\ PageWrite.len = 1 + size
      /\ \A k \in 0 .. size :
           PageWrite.image[k] = IF k = 0 THEN PageHeader(next_page_id, FALSE)
                                ELSE Data(c, n, k)
  BY DEF PageWrite, Write
<1>6. \A k \in 0 .. size : PageWrite.image[k] \in Cell
  <2>1. PageHeader(next_page_id, FALSE) \in Cell
    BY <1>4, CellTypes
  <2>2. \A k \in 0 .. size : Data(c, n, k) \in Cell
    BY <1>2, <1>3, CellTypes
  <2> HIDE DEF c, n, size
  <2> QED
    BY <1>5, <2>1, <2>2
<1>7. Transfer(PageWrite, 1 + size)
  BY <1>5 DEF AppendWrite, WriteAt
<1> HIDE DEF c, n, size
<1>8. /\ disk_len' = Larger(disk_len, append_pos + (1 + size))
      /\ disk_len' \in Nat /\ append_pos + (1 + size) <= disk_len'
      /\ disk' \in [Cells' -> Cell]
      /\ \A k \in 0 .. size : disk'[append_pos + k] = PageWrite.image[k]
      /\ \A i \in Cells : i < append_pos => disk'[i] = disk[i]
  <2>1. 1 + size \in Nat \ {0} /\ 0 .. (1 + size) - 1 = 0 .. size
    BY <1>3
  <2> DEFINE w == PageWrite
             m == 1 + size
  <2>2. /\ w.at \in Nat /\ m \in Nat \ {0} /\ Transfer(w, m)
        /\ \A k \in 0 .. m - 1 : w.image[k] \in Cell
    BY <1>4, <1>5, <1>6, <1>7, <2>1
  <2> HIDE DEF w, m
  <2>3. /\ disk_len' = Larger(disk_len, w.at + m)
        /\ disk_len' \in Nat /\ w.at + m <= disk_len' /\ disk' \in [Cells' -> Cell]
        /\ \A k \in 0 .. m - 1 : disk'[w.at + k] = w.image[k]
        /\ \A i \in Cells : ~(w.at <= i /\ i < w.at + m) => disk'[i] = disk[i]
    BY <1>4, <2>2, TransferEffect
  <2>4. \A i \in Cells : i < append_pos => ~(w.at <= i)
    BY <1>4, <1>5 DEF w, Cells
  <2> QED
    BY <1>5, <2>1, <2>3, <2>4 DEF w, m
<1>9. append_pos' = append_pos + 1 + size
  BY <1>3, <1>4, <1>5 DEF AppendWrite
<1>10. file_size' \in Nat
  BY <1>3, <1>4, <1>5 DEF AppendWrite, WriteAt, Larger
<1>11. append_pos = disk_len => append_pos' = disk_len'
  BY <1>3, <1>4, <1>8, <1>9 DEF Larger
<1> DEFINE ref == [id |-> next_page_id, offset |-> append_pos, size |-> size]
<1>12. /\ PagesWritten = Append(job.pages, ref) /\ ref \in PageRef
       /\ NewPage = ref /\ ref.size = size
  BY <1>3, <1>4 DEF PagesWritten, NewPage, PageRef, c, n, size
<1> HIDE DEF ref
<1>13. PagesWritten \in Seq(PageRef) /\ Len(PagesWritten) = Len(job.pages) + 1
  BY <1>2, <1>12
<1>14. ASSUME NEW k \in DOMAIN PagesWritten
       PROVE  PagesWritten[k].offset + 1 + PagesWritten[k].size <= append_pos'
  <2>1. CASE k \in DOMAIN job.pages
    <3>1. PagesWritten[k] = job.pages[k] /\ job.pages[k] \in PageRef
      BY <1>2, <1>12, <2>1
    <3>2. job.pages[k].offset + 1 + job.pages[k].size <= append_pos
      BY <2>1 DEF IInv, PagesInv
    <3> QED
      BY <1>3, <1>4, <1>9, <3>1, <3>2 DEF PageRef
  <2>2. CASE k \notin DOMAIN job.pages
    <3>1. PagesWritten[k] = ref
      BY <1>2, <1>12, <1>13, <2>2
    <3> QED
      BY <1>3, <1>4, <1>9, <3>1 DEF ref
  <2> QED
    BY <2>1, <2>2
<1>15. disk'[append_pos] = PageHeader(next_page_id, FALSE)
  <2>1. 0 \in 0 .. size /\ append_pos + 0 = append_pos
    BY <1>3, <1>4
  <2> QED
    BY <1>5, <1>8, <2>1
<1>16. ASSUME NEW k \in 1 .. size PROVE disk'[append_pos + k] = Data(c, n, k)
  <2>1. k \in 0 .. size /\ k # 0
    OBVIOUS
  <2> QED
    BY <1>5, <1>8, <2>1
<1>17. append_pos' \in Nat /\ append_pos < append_pos' /\ append_pos' <= disk_len'
  BY <1>3, <1>4, <1>8, <1>9
<1>18. NewPage \in PageRef /\ PagesWritten = Append(job.pages, NewPage)
  BY <1>12
<1>19. \A k \in 1 .. NewPage.size :
         disk'[append_pos + k] = Data(job.content, Len(job.pages) + 1, k)
  BY <1>12, <1>16 DEF c, n
<1> QED
  BY <1>8, <1>10, <1>11, <1>13, <1>14, <1>15, <1>17, <1>18, <1>19

\* The part of this that the types and positions depend on.
LEMMA PageAppended ==
  ASSUME IInv, pc = "write_page", AppendWrite(PageWrite)
  PROVE  /\ disk' \in [Cells' -> Cell] /\ disk_len' \in Nat
         /\ file_size' \in Nat /\ append_pos' \in Nat
         /\ append_pos < append_pos' /\ append_pos' <= disk_len'
         /\ append_pos = disk_len => append_pos' = disk_len'
         /\ PagesWritten \in Seq(PageRef)
         /\ Len(PagesWritten) = Len(job.pages) + 1
         /\ \A n \in DOMAIN PagesWritten :
              PagesWritten[n].offset + 1 + PagesWritten[n].size <= append_pos'
  BY PageWritten

\* A page that is not the last keeps the invariant.
LEMMA WritePageInv ==
  ASSUME IInv, WritePage
  PROVE  IInv'
<1>1. /\ pc = "write_page" /\ pc' = pc /\ mode' = mode /\ wcat' = wcat
      /\ rcat' = rcat /\ catalog_offset' = catalog_offset
      /\ next_page_id' = next_page_id + 1
      /\ AppendWrite(PageWrite)
      /\ job' = [job EXCEPT !.pages = PagesWritten]
  BY DEF WritePage
<1>2. job \in AddJob
  BY <1>1 DEF IInv, TypeOK, JobOK
<1>3. /\ job' \in AddJob /\ job'.pages = PagesWritten /\ job'.content = job.content
  BY <1>1, <1>2, PageAppended DEF AddJob
<1>4. TypeOK'
  BY <1>1, <1>3, PageAppended DEF IInv, TypeOK, JobOK
<1>5. LoopInv'
  <2>1. /\ job.content \in Content
        /\ Len(job.pages) \in Nat /\ Len(Payload[job.content]) \in Nat
    BY <1>2, PayloadAssumption DEF AddJob
  <2>2. /\ Len(job.pages) < Len(Payload[job.content])
        /\ Len(job.pages) + 1 # Len(Payload[job.content])
    BY <1>1 DEF IInv, LoopInv, WritePage, LastPage
  <2> QED
    BY <1>1, <1>3, <2>1, <2>2, PageAppended DEF LoopInv
<1>6. CreatedInv'
  <2> SUFFICES ASSUME mode = "created"
               PROVE  append_pos' = disk_len' /\ PagesBelow(wcat, append_pos')
    BY <1>1 DEF CreatedInv
  <2>1. append_pos = disk_len /\ PagesBelow(wcat, append_pos)
    BY <1>1 DEF IInv, CreatedInv
  <2>2. append_pos' = disk_len' /\ append_pos <= append_pos' /\ append_pos' \in Nat
    BY <1>1, <2>1, PageAppended DEF IInv, TypeOK
  <2> QED
    BY <2>1, <2>2, PagesBelowLater DEF IInv, TypeOK
<1>7. PagesInv'
  <2>1. /\ append_pos' \in Nat /\ append_pos < append_pos' /\ append_pos' <= disk_len'
        /\ \A n \in DOMAIN PagesWritten :
             PagesWritten[n].offset + 1 + PagesWritten[n].size <= append_pos'
    BY <1>1, PageAppended
  <2>2. mode = "opened" => catalog_offset <= append_pos'
                           /\ PagesBelow(wcat, catalog_offset)
    BY <1>1, <2>1 DEF IInv, TypeOK, PagesInv
  <2> QED
    BY <1>1, <1>3, <2>1, <2>2 DEF PagesInv
<1> QED
  BY <1>1, <1>4, <1>5, <1>6, <1>7 DEF IInv, ModeInv, ClosedInv, IdleInv, CommitInv

\* The last page keeps the invariant: the pages of the new entry are before the
\* position where the catalog will be written.
LEMMA WriteLastPageInv ==
  ASSUME IInv, WriteLastPage
  PROVE  IInv'
<1> DEFINE e == [content |-> job.content, deleted |-> FALSE, pages |-> PagesWritten]
<1>1. /\ pc = "write_page" /\ mode' = mode
      /\ rcat' = rcat /\ catalog_offset' = catalog_offset
      /\ next_page_id' = next_page_id + 1
      /\ AppendWrite(PageWrite)
      /\ wcat' = [wcat EXCEPT ![job.path] = e]
      /\ \/ mode = "opened" /\ pc' = "write_catalog"
            /\ job' = [call |-> "add", path |-> job.path]
         \/ mode = "created" /\ pc' = "idle" /\ job' = NoJob
  BY DEF WriteLastPage
<1>2. job.path \in Path /\ job.content \in Content
  BY <1>1 DEF IInv, TypeOK, JobOK, AddJob
<1>3. /\ append_pos \in Nat /\ append_pos' \in Nat
      /\ append_pos < append_pos' /\ append_pos' <= disk_len'
      /\ append_pos = disk_len => append_pos' = disk_len'
      /\ disk_len' \in Nat /\ disk' \in [Cells' -> Cell] /\ file_size' \in Nat
  BY <1>1, PageAppended DEF IInv, TypeOK
<1>4. e \in Entry /\ \A n \in DOMAIN e.pages :
        e.pages[n].offset + 1 + e.pages[n].size <= append_pos'
  <2>1. PagesWritten \in Seq(PageRef) /\ Len(PagesWritten) = Len(job.pages) + 1
    BY <1>1, PageAppended
  <2>2. Len(job.pages) \in Nat
    BY <1>1 DEF IInv, TypeOK, JobOK, AddJob
  <2>3. PagesWritten # <<>>
    BY <2>1, <2>2
  <2> QED
    BY <1>1, <1>2, <2>1, <2>3, PageAppended DEF Entry
<1>5. PagesBelow(wcat, append_pos')
  <2>1. CASE mode = "created"
    BY <1>1, <1>3, <2>1, PagesBelowLater DEF IInv, TypeOK, CreatedInv
  <2>2. CASE mode = "opened"
    <3>1. /\ catalog_offset \in Nat /\ catalog_offset <= append_pos
          /\ PagesBelow(wcat, catalog_offset)
      BY <1>1, <2>2 DEF IInv, TypeOK, PagesInv
    <3> QED
      BY <1>3, <3>1, PagesBelowLater DEF IInv, TypeOK
  <2> QED
    BY <1>1, <2>1, <2>2
<1> HIDE DEF e
<1>6. wcat' \in Catalog /\ PagesBelow(wcat', append_pos')
  BY <1>1, <1>2, <1>3, <1>4, <1>5, PagesBelowPut DEF IInv, TypeOK
<1>7. TypeOK'
  BY <1>1, <1>2, <1>3, <1>6 DEF IInv, TypeOK, JobOK, CatalogJob
<1>8. CreatedInv'
  BY <1>1, <1>3, <1>6 DEF IInv, CreatedInv
<1>9. CommitInv'
  BY <1>1, <1>3, <1>6 DEF CommitInv
<1> QED
  BY <1>1, <1>7, <1>8, <1>9 DEF IInv, ModeInv, LoopInv, ClosedInv, IdleInv, PagesInv
-----------------------------------------------------------------------------
(* Deleting and renaming keep the invariant.                               *)

\* The start of DeleteFile keeps the invariant.
LEMMA DeleteFileInv ==
  ASSUME IInv, NEW p \in Path, NEW soft \in BOOLEAN, DeleteFile(p, soft)
  PROVE  IInv'
<1>1. /\ mode = "opened" /\ pc = "idle" /\ wcat[p] # NoEntry
      /\ UNCHANGED <<disk, disk_len, file_size, memory, mode>>
  BY DEF DeleteFile
<1>2. /\ PagesBelow(wcat, catalog_offset) /\ catalog_offset \in Nat
      /\ catalog_offset < disk_len /\ append_pos \in Nat
  BY <1>1, ReadableCatalog DEF IInv, TypeOK, IdleInv
<1>3. CASE pc' = "write_catalog" /\ CommitAt("delete", p)
  <2>1. append_pos' = catalog_offset /\ job' = [call |-> "delete", path |-> p]
    BY <1>3 DEF CommitAt
  <2>2. TypeOK'
    BY <1>1, <1>2, <1>3, <2>1 DEF IInv, TypeOK, JobOK, CatalogJob, Cells, memory
  <2>3. CommitInv'
    BY <1>1, <1>2, <1>3, <2>1 DEF IInv, TypeOK, CommitInv, memory
  <2> QED
    BY <1>1, <1>3, <2>2, <2>3
    DEF IInv, ModeInv, LoopInv, ClosedInv, CreatedInv, IdleInv, PagesInv
<1>4. CASE /\ pc' = "patch_page" /\ append_pos' = append_pos
           /\ job' = [call |-> "delete", path |-> p, soft |-> soft, n |-> 1]
  <2>1. TypeOK'
    BY <1>1, <1>4 DEF IInv, TypeOK, JobOK, DeleteJob, Cells, memory
  <2>2. LoopInv'
    <3>1. wcat[p].pages \in Seq(PageRef) \ {<<>>}
      BY <1>1 DEF IInv, TypeOK, Catalog, Entry
    <3>2. 1 <= Len(wcat[p].pages)
      BY <3>1
    <3> QED
      BY <1>1, <1>4, <3>2 DEF LoopInv, memory
  <2>3. PagesInv'
    BY <1>1, <1>2, <1>4 DEF IInv, TypeOK, PagesInv, memory
  <2> QED
    BY <1>1, <1>4, <2>1, <2>2, <2>3
    DEF IInv, ModeInv, ClosedInv, CreatedInv, IdleInv, CommitInv
<1> QED
  BY <1>3, <1>4 DEF DeleteFile, CommitAt


\* The cells from from to to - 1.
Span(from, to) == {i \in Int : from <= i /\ i < to}

\* The page that a turn of the loop in DeleteFile patches is before the
\* catalog, so the patch lies within the file; it changes the header of that
\* page, and of its payload what it zeroes.
LEMMA PatchApplied ==
  ASSUME IInv, pc = "patch_page", WriteAt(PatchWrite)
  PROVE  /\ disk' \in [Cells' -> Cell] /\ disk_len' \in Nat
         /\ file_size' \in Nat /\ disk_len <= disk_len'
         /\ LET ref == wcat[job.path].pages[job.n]
                size == IF job.soft THEN 0 ELSE ref.size
            IN /\ disk'[ref.offset] = Flagged(disk[ref.offset])
               /\ \A i \in Cells \ Span(ref.offset, ref.offset + 1 + size) :
                    disk'[i] = disk[i]
<1> DEFINE ref == wcat[job.path].pages[job.n]
           size == IF job.soft THEN 0 ELSE ref.size
<1>1. job \in DeleteJob
  BY DEF IInv, TypeOK, JobOK
<1>2. /\ wcat[job.path] \in Entry
      /\ job.n \in 1 .. Len(wcat[job.path].pages)
  BY <1>1 DEF IInv, TypeOK, LoopInv, DeleteJob, Catalog
<1>3. ref \in PageRef
  BY <1>2 DEF Entry
<1>4. size \in Nat /\ size <= ref.size /\ ref.offset \in Nat /\ ref.size \in Nat
  BY <1>1, <1>3 DEF PageRef, DeleteJob
<1>5. /\ disk_len \in Nat /\ file_size \in Nat /\ disk \in [Cells -> Cell]
      /\ catalog_offset \in Nat
  BY DEF IInv, TypeOK
<1>6. ref.offset + 1 + ref.size <= catalog_offset /\ catalog_offset <= disk_len
  <2>1. job.path \in Entries(wcat) /\ job.n \in DOMAIN wcat[job.path].pages
    BY <1>1, <1>2 DEF Entries, IInv, LoopInv, Entry, DeleteJob
  <2> QED
    BY <2>1 DEF IInv, PagesInv, PagesBelow
<1>7. disk[ref.offset] \in Cell /\ CellAt(ref.offset) = disk[ref.offset]
  <2>1. disk \in [Cells -> Cell]
    BY <1>5
  <2> HIDE DEF ref
  <2>2. ref.offset \in Cells
    BY <1>4, <1>5, <1>6 DEF Cells
  <2>3. disk[ref.offset] \in Cell
    BY <2>1, <2>2
  <2> QED
    BY <2>2, <2>3 DEF CellAt
<1>8. /\ PatchWrite.at = ref.offset /\ PatchWrite.len = 1 + size
      /\ \A k \in 0 .. size :
           PatchWrite.image[k] = IF k = 0 THEN Flagged(disk[ref.offset]) ELSE Zero
  <2> DEFINE image == [k \in 0 .. size |->
                         IF k = 0 THEN Flagged(CellAt(ref.offset)) ELSE Zero]
  <2>1. PatchWrite = Write(ref.offset, 1 + size, image)
    BY DEF PatchWrite
  <2>2. \A k \in 0 .. size : image[k] = IF k = 0 THEN Flagged(disk[ref.offset]) ELSE Zero
    BY <1>7
  <2> HIDE DEF ref, size, image
  <2> QED
    BY <2>1, <2>2 DEF Write
<1>9. \A k \in 0 .. size : PatchWrite.image[k] \in Cell
  BY <1>7, <1>8, CellTypes
<1>10. Transfer(PatchWrite, 1 + size) /\ file_size' = Larger(file_size, ref.offset + (1 + size))
  BY <1>8 DEF WriteAt
<1> HIDE DEF ref, size
<1>11. file_size' \in Nat
  BY <1>4, <1>5, <1>10 DEF Larger
<1> DEFINE w == PatchWrite
           m == 1 + size
<1>12. /\ w.at \in Nat /\ m \in Nat \ {0} /\ Transfer(w, m)
       /\ \A k \in 0 .. m - 1 : w.image[k] \in Cell
  BY <1>4, <1>8, <1>9, <1>10
<1> HIDE DEF w, m
<1>13. /\ disk' \in [Cells' -> Cell] /\ disk_len' \in Nat /\ disk_len <= disk_len'
       /\ \A k \in 0 .. m - 1 : disk'[w.at + k] = w.image[k]
       /\ \A i \in Cells : ~(w.at <= i /\ i < w.at + m) => disk'[i] = disk[i]
  BY <1>5, <1>12, TransferEffect
<1>14. disk'[ref.offset] = Flagged(disk[ref.offset])
  <2>1. disk'[w.at + 0] = w.image[0]
    BY <1>12, <1>13
  <2>2. w.at + 0 = ref.offset /\ w.image[0] = Flagged(disk[ref.offset])
    BY <1>4, <1>8 DEF w
  <2> QED
    BY <2>1, <2>2
<1>15. ASSUME NEW i \in Cells \ Span(ref.offset, ref.offset + 1 + size)
       PROVE  disk'[i] = disk[i]
  <2>1. ~(w.at <= i /\ i < w.at + m)
    BY <1>4, <1>8 DEF w, m, Span, Cells
  <2> QED
    BY <1>13, <2>1
<1> QED
  BY <1>11, <1>13, <1>14, <1>15 DEF ref, size

\* Patching a page that is not the last keeps the invariant.
LEMMA PatchPageInv ==
  ASSUME IInv, PatchPage
  PROVE  IInv'
<1>1. /\ pc = "patch_page" /\ pc' = pc
      /\ UNCHANGED <<append_pos, memory, mode>>
      /\ job.n < Len(wcat[job.path].pages)
      /\ job' = [job EXCEPT !.n = @ + 1]
  BY DEF PatchPage
<1>2. /\ disk' \in [Cells' -> Cell] /\ disk_len' \in Nat
      /\ file_size' \in Nat /\ disk_len <= disk_len'
  BY PatchApplied DEF PatchPage
<1>3. job \in DeleteJob
  BY <1>1 DEF IInv, TypeOK, JobOK
<1>4. job' \in DeleteJob /\ job'.path = job.path /\ job'.n = job.n + 1
  BY <1>1, <1>3 DEF DeleteJob
<1>5. TypeOK'
  BY <1>1, <1>2, <1>4 DEF IInv, TypeOK, JobOK, memory
<1>6. LoopInv'
  <2>1. Len(wcat[job.path].pages) \in Nat /\ job.n \in Nat
    BY <1>1, <1>3 DEF IInv, TypeOK, LoopInv, DeleteJob, Catalog, Entry
  <2> QED
    BY <1>1, <1>4, <2>1 DEF IInv, LoopInv, memory
<1>7. PagesInv'
  BY <1>1, <1>2 DEF IInv, TypeOK, PagesInv, memory
<1> QED
  BY <1>1, <1>5, <1>6, <1>7
  DEF IInv, ModeInv, ClosedInv, CreatedInv, IdleInv, CommitInv

\* Patching the last page keeps the invariant: the entry is marked or erased.
LEMMA PatchLastPageInv ==
  ASSUME IInv, PatchLastPage
  PROVE  IInv'
<1> DEFINE old == wcat[job.path]
           new == IF job.soft THEN [old EXCEPT !.deleted = TRUE] ELSE NoEntry
<1>1. /\ pc = "patch_page" /\ pc' = "write_catalog" /\ mode' = mode
      /\ append_pos' = catalog_offset
      /\ job' = [call |-> "delete", path |-> job.path]
      /\ UNCHANGED <<rcat, catalog_offset, next_page_id>>
      /\ wcat' = [wcat EXCEPT ![job.path] = new]
  BY DEF PatchLastPage, CommitAt
<1>2. /\ disk' \in [Cells' -> Cell] /\ disk_len' \in Nat
      /\ file_size' \in Nat /\ disk_len <= disk_len'
  BY PatchApplied DEF PatchLastPage
<1>3. job.path \in Path /\ old \in Entry
  BY <1>1 DEF IInv, TypeOK, JobOK, LoopInv, DeleteJob, Catalog
<1>4. /\ PagesBelow(wcat, catalog_offset) /\ catalog_offset \in Nat
      /\ catalog_offset <= disk_len /\ disk_len \in Nat /\ wcat \in Catalog
  BY <1>1 DEF IInv, TypeOK, PagesInv
<1>5. [old EXCEPT !.deleted = TRUE] \in Entry
      /\ [old EXCEPT !.deleted = TRUE].pages = old.pages
  BY <1>3 DEF Entry
<1>6. new \in Entry \cup {NoEntry}
  BY <1>5
<1>7. new # NoEntry => \A n \in DOMAIN new.pages :
        new.pages[n].offset + 1 + new.pages[n].size <= catalog_offset
  <2>1. job.path \in Entries(wcat)
    BY <1>3, NoEntryAssumption DEF Entries
  <2> QED
    BY <1>4, <1>5, <2>1 DEF PagesBelow
<1> HIDE DEF old, new
<1>8. wcat' \in Catalog /\ PagesBelow(wcat', catalog_offset)
  BY <1>1, <1>3, <1>4, <1>6, <1>7, PagesBelowPut
<1>9. TypeOK'
  BY <1>1, <1>2, <1>3, <1>4, <1>8 DEF IInv, TypeOK, JobOK, CatalogJob
<1>10. CommitInv'
  BY <1>1, <1>2, <1>4, <1>8 DEF CommitInv
<1> QED
  BY <1>1, <1>9, <1>10
  DEF IInv, ModeInv, LoopInv, ClosedInv, CreatedInv, IdleInv, PagesInv

\* RenameFile keeps the invariant: the pages stay where they are.
LEMMA RenameFileInv ==
  ASSUME IInv, NEW p \in Path, NEW q \in Path, RenameFile(p, q)
  PROVE  IInv'
<1> DEFINE without == [wcat EXCEPT ![p] = NoEntry]
<1>1. /\ mode = "opened" /\ pc = "idle" /\ mode' = mode
      /\ pc' = "write_catalog" /\ append_pos' = catalog_offset
      /\ job' = [call |-> "rename", path |-> p]
      /\ rcat[p] # NoEntry
      /\ wcat' = [wcat EXCEPT ![p] = NoEntry, ![q] = rcat[p]]
      /\ UNCHANGED <<disk, disk_len, file_size, rcat, catalog_offset, next_page_id>>
  BY DEF RenameFile, CommitAt
<1>2. /\ PagesBelow(wcat, catalog_offset) /\ catalog_offset \in Nat
      /\ catalog_offset < disk_len /\ wcat = rcat /\ wcat \in Catalog
  BY <1>1, ReadableCatalog DEF IInv, TypeOK, IdleInv
<1>3. without \in Catalog /\ PagesBelow(without, catalog_offset)
  BY <1>2, PagesBelowPut
<1>4. wcat' = [without EXCEPT ![q] = rcat[p]]
  BY <1>1
<1>5. rcat[p] \in Entry \cup {NoEntry} /\ \A n \in DOMAIN rcat[p].pages :
        rcat[p].pages[n].offset + 1 + rcat[p].pages[n].size <= catalog_offset
  BY <1>1, <1>2 DEF Catalog, PagesBelow, Entries
<1> HIDE DEF without
<1>6. wcat' \in Catalog /\ PagesBelow(wcat', catalog_offset)
  BY <1>2, <1>3, <1>4, <1>5, PagesBelowPut
<1>7. TypeOK'
  BY <1>1, <1>2, <1>6 DEF IInv, TypeOK, JobOK, CatalogJob, Cells
<1>8. CommitInv'
  BY <1>1, <1>2, <1>6 DEF IInv, TypeOK, CommitInv
<1> QED
  BY <1>1, <1>7, <1>8
  DEF IInv, ModeInv, LoopInv, ClosedInv, CreatedInv, IdleInv, PagesInv
-----------------------------------------------------------------------------
(* The commit keeps the invariant.                                         *)

\* WriteCatalogAndFooter, first write: the catalog is whole at job.offset, and
\* nothing before it changes.
LEMMA WriteCatalogInv ==
  ASSUME IInv, WriteCatalog
  PROVE  IInv' /\ (\A i \in Cells : i < append_pos => disk'[i] = disk[i])
<1> DEFINE size == CatalogSize(wcat)
<1>1. /\ pc = "write_catalog" /\ pc' = "write_footer"
      /\ UNCHANGED <<memory, mode>> /\ AppendWrite(CatalogWrite)
      /\ job' = IF job.call = "close" THEN [call |-> "close", offset |-> append_pos]
                ELSE [call |-> job.call, path |-> job.path, offset |-> append_pos]
  BY DEF WriteCatalog
<1>2. /\ append_pos \in Nat /\ disk_len \in Nat /\ file_size \in Nat
      /\ disk \in [Cells -> Cell] /\ wcat \in Catalog /\ job \in CatalogJob
  BY <1>1 DEF IInv, TypeOK, JobOK
<1>3. size \in Nat \ {0}
  BY CatalogSizeType
<1>4. /\ CatalogWrite.at = append_pos /\ CatalogWrite.len = size
      /\ \A k \in 0 .. size - 1 : CatalogWrite.image[k] = CatalogPart(wcat, k)
  BY DEF CatalogWrite, Write
<1> HIDE DEF size
<1>5. \A k \in 0 .. size - 1 : CatalogWrite.image[k] \in Cell
  BY <1>2, <1>3, <1>4, CellTypes
<1>6. /\ disk_len' = Larger(disk_len, append_pos + size)
      /\ disk_len' \in Nat /\ append_pos + size <= disk_len'
      /\ disk' \in [Cells' -> Cell]
      /\ \A k \in 0 .. size - 1 : disk'[append_pos + k] = CatalogPart(wcat, k)
      /\ \A i \in Cells : i < append_pos => disk'[i] = disk[i]
  <2> DEFINE w == CatalogWrite
  <2>1. /\ w.at \in Nat /\ Transfer(w, size)
        /\ \A k \in 0 .. size - 1 : w.image[k] \in Cell
    BY <1>1, <1>2, <1>4, <1>5 DEF AppendWrite, WriteAt
  <2> HIDE DEF w
  <2>2. /\ disk_len' = Larger(disk_len, w.at + size)
        /\ disk_len' \in Nat /\ w.at + size <= disk_len'
        /\ disk' \in [Cells' -> Cell]
        /\ \A k \in 0 .. size - 1 : disk'[w.at + k] = w.image[k]
        /\ \A i \in Cells : ~(w.at <= i /\ i < w.at + size) => disk'[i] = disk[i]
    BY <1>2, <1>3, <2>1, TransferEffect
  <2>3. \A i \in Cells : i < append_pos => ~(w.at <= i)
    BY <1>2, <1>4 DEF w, Cells
  <2> QED
    BY <1>4, <2>2, <2>3 DEF w
<1>7. append_pos' = append_pos + size /\ file_size' \in Nat
  BY <1>1, <1>2, <1>3, <1>4 DEF AppendWrite, WriteAt, Larger
<1>8. job' \in FooterJob /\ job'.offset = append_pos /\ job'.call = job.call
  BY <1>1, <1>2 DEF CatalogJob, FooterJob, CommitJob
<1>9. TypeOK'
  BY <1>1, <1>2, <1>3, <1>6, <1>7, <1>8 DEF IInv, TypeOK, JobOK, memory
<1>10. CatalogWritten(job.offset, wcat)'
  BY <1>1, <1>6, <1>8 DEF CatalogWritten, size, memory
<1>11. CommitInv'
  <2>1. job.call = "close" => append_pos' = disk_len'
    BY <1>1, <1>2, <1>3, <1>6, <1>7 DEF IInv, CommitInv, Larger
  <2>2. PagesBelow(wcat, append_pos)
    BY <1>1 DEF IInv, CommitInv
  <2> QED
    BY <1>1, <1>7, <1>8, <1>10, <2>1, <2>2 DEF CommitInv, size, memory
<1> QED
  BY <1>1, <1>6, <1>8, <1>9, <1>11
  DEF IInv, ModeInv, LoopInv, ClosedInv, CreatedInv, IdleInv, PagesInv

\* The footer goes to append_pos, right behind its catalog.
LEMMA FooterAppended ==
  ASSUME IInv, pc = "write_footer", Transfer(FooterWrite, 1)
  PROVE  /\ disk_len' = Larger(disk_len, append_pos + 1) /\ disk_len' \in Nat
         /\ disk' \in [Cells' -> Cell]
         /\ job' = job /\ wcat' = wcat => FooterWritten(job.offset, wcat)'
         /\ append_pos = job.offset + CatalogSize(wcat)
         /\ disk'[append_pos] = Footer(job.offset, wcat)
         /\ \A k \in 0 .. CatalogSize(wcat) - 1 :
              disk'[job.offset + k] = CatalogPart(wcat, k)
         /\ \A i \in Cells : i < append_pos => disk'[i] = disk[i]
<1> DEFINE size == CatalogSize(wcat)
<1>1. /\ append_pos \in Nat /\ disk_len \in Nat
      /\ disk \in [Cells -> Cell] /\ wcat \in Catalog /\ job.offset \in Nat
  BY DEF IInv, TypeOK, JobOK, FooterJob, CommitJob
<1>2. size \in Nat \ {0}
  BY CatalogSizeType
<1>3. /\ append_pos = job.offset + size /\ job.offset + size <= disk_len
      /\ \A k \in 0 .. size - 1 : disk[job.offset + k] = CatalogPart(wcat, k)
  BY DEF IInv, CommitInv, CatalogWritten
<1> HIDE DEF size
<1>4. /\ FooterWrite.at = append_pos
      /\ FooterWrite.image[0] = Footer(job.offset, wcat)
  BY DEF FooterWrite, Write
<1>5. Footer(job.offset, wcat) \in Cell
  BY <1>1, CellTypes
<1>6. /\ disk_len' = Larger(disk_len, append_pos + 1) /\ disk_len' \in Nat
      /\ append_pos + 1 <= disk_len' /\ disk' \in [Cells' -> Cell]
      /\ disk'[append_pos] = Footer(job.offset, wcat)
      /\ \A i \in Cells : i < append_pos => disk'[i] = disk[i]
  <2> DEFINE w == FooterWrite
             m == 1
  <2>1. /\ w.at \in Nat /\ m \in Nat \ {0} /\ Transfer(w, m)
        /\ \A k \in 0 .. m - 1 : w.image[k] \in Cell
    BY <1>1, <1>4, <1>5
  <2> HIDE DEF w, m
  <2>2. /\ disk_len' = Larger(disk_len, w.at + m)
        /\ disk_len' \in Nat /\ w.at + m <= disk_len'
        /\ disk' \in [Cells' -> Cell]
        /\ \A k \in 0 .. m - 1 : disk'[w.at + k] = w.image[k]
        /\ \A i \in Cells : ~(w.at <= i /\ i < w.at + m) => disk'[i] = disk[i]
    BY <1>1, <2>1, TransferEffect
  <2>3. w.at = append_pos /\ m = 1
    BY <1>4 DEF w, m
  <2>4. disk'[w.at + 0] = w.image[0]
    BY <2>2, <2>3
  <2>5. w.image[0] = Footer(job.offset, wcat)
    BY <1>4 DEF w
  <2>6. disk'[append_pos] = Footer(job.offset, wcat)
    BY <1>1, <2>3, <2>4, <2>5
  <2>7. \A i \in Cells : i < append_pos => disk'[i] = disk[i]
    BY <1>1, <2>2, <2>3 DEF Cells
  <2> QED
    BY <2>2, <2>3, <2>6, <2>7
<1>7. ASSUME NEW k \in 0 .. size - 1
      PROVE  disk'[job.offset + k] = CatalogPart(wcat, k)
  <2>1. job.offset + k \in Cells /\ job.offset + k < append_pos
    BY <1>1, <1>2, <1>3 DEF Cells
  <2> QED
    BY <1>3, <1>6, <2>1
<1>8. job' = job /\ wcat' = wcat => FooterWritten(job.offset, wcat)'
  BY <1>1, <1>2, <1>3, <1>6, <1>7 DEF FooterWritten, CatalogWritten, size
<1> QED
  BY <1>3, <1>6, <1>7, <1>8 DEF size

\* WriteCatalogAndFooter, second write, in a commit.
LEMMA WriteFooterInv ==
  ASSUME IInv, WriteFooter
  PROVE  IInv'
<1>1. /\ pc = "write_footer" /\ pc' = "truncate" /\ job.call # "close"
      /\ job' = job /\ mode' = mode /\ wcat' = wcat /\ rcat' = rcat
      /\ catalog_offset' = catalog_offset /\ next_page_id' = next_page_id
  BY DEF WriteFooter, memory
<1>2. FooterWrite.at = append_pos /\ FooterWrite.len = 1
  BY DEF FooterWrite, Write
<1>3. /\ append_pos' = append_pos + 1 /\ file_size' = Larger(file_size, append_pos + 1)
      /\ Transfer(FooterWrite, 1)
  BY <1>2 DEF WriteFooter, AppendWrite, WriteAt
<1>4. append_pos' \in Nat /\ file_size' \in Nat /\ job \in CommitJob
  BY <1>1, <1>3 DEF IInv, TypeOK, JobOK, FooterJob, Larger
<1>5. TypeOK'
  BY <1>1, <1>3, <1>4, FooterAppended DEF IInv, TypeOK, JobOK
<1>6. CommitInv'
  BY <1>1, <1>3, FooterAppended DEF IInv, CommitInv
<1> QED
  BY <1>1, <1>5, <1>6
  DEF IInv, ModeInv, LoopInv, ClosedInv, CreatedInv, IdleInv, PagesInv

\* The same in Close: nothing is behind the footer, so the file is readable,
\* and what it lists is what the writer listed.
LEMMA WriteLastFooterInv ==
  ASSUME IInv, WriteLastFooter
  PROVE  IInv' /\ DiskCatalog' = wcat
<1> DEFINE off == job.offset
           size == CatalogSize(wcat)
<1>1. /\ pc = "write_footer" /\ job.call = "close" /\ pc' = "idle"
      /\ mode' = "closed" /\ job' = NoJob /\ Transfer(FooterWrite, 1)
      /\ wcat' = EmptyCatalog /\ rcat' = EmptyCatalog /\ file_size' = 0
      /\ append_pos' = 0 /\ catalog_offset' = 0 /\ next_page_id' = 0
  BY DEF WriteLastFooter, Release
<1>2. append_pos = disk_len /\ PagesBelow(wcat, off) /\ disk_len \in Nat
      /\ off \in Nat /\ size \in Nat \ {0} /\ FileCount(wcat) \in Nat
  BY <1>1, CatalogSizeType
  DEF IInv, TypeOK, JobOK, FooterJob, CommitJob, CommitInv
<1>3. /\ disk_len' = off + size + 1 /\ append_pos = off + size
      /\ disk' \in [Cells' -> Cell]
      /\ disk'[off + size] = Footer(off, wcat)
      /\ \A k \in 0 .. size - 1 : disk'[off + k] = CatalogPart(wcat, k)
  BY <1>1, <1>2, FooterAppended DEF Larger
<1>4. EmptyCatalog \in Catalog
  BY DEF EmptyCatalog, Catalog
<1>5. TypeOK'
  BY <1>1, <1>2, <1>3, <1>4 DEF IInv, TypeOK, JobOK
<1>6. disk'[disk_len' - 1] = Footer(off, wcat) /\ disk'[off] = CatalogPart(wcat, 0)
  <2>1. disk_len' - 1 = off + size /\ off + 0 = off /\ 0 \in 0 .. size - 1
    BY <1>2, <1>3
  <2> QED
    BY <1>3, <2>1
<1>7. FooterOffset' = off /\ DiskCatalog' = wcat
  BY <1>6 DEF FooterOffset, DiskCatalog, Footer, CatalogPart
<1>8. CatalogReadable'
  BY <1>2, <1>3, <1>6 DEF CatalogReadable, Footer, CatalogPart
<1>9. ClosedInv'
  BY <1>2, <1>7, <1>8 DEF ClosedInv
<1> QED
  BY <1>1, <1>5, <1>7, <1>9
  DEF IInv, ModeInv, LoopInv, CreatedInv, IdleInv, PagesInv, CommitInv

\* Truncate keeps the invariant: it cuts exactly what is behind the footer.
LEMMA TruncateInv ==
  ASSUME IInv, Truncate
  PROVE  IInv'
<1>1. /\ pc = "truncate" /\ pc' = "reload"
      /\ disk' = [i \in 0 .. append_pos - 1 |-> disk[i]]
      /\ disk_len' = append_pos /\ file_size' = append_pos
      /\ catalog_offset' = job.offset
      /\ UNCHANGED <<append_pos, wcat, rcat, next_page_id, mode, job>>
  BY DEF Truncate
<1>2. /\ disk_len \in Nat /\ disk \in [Cells -> Cell] /\ append_pos \in Nat
      /\ job \in CommitJob /\ job.offset \in Nat
  BY <1>1 DEF IInv, TypeOK, JobOK, CommitJob
<1>3. CatalogSize(wcat) \in Nat \ {0}
  BY CatalogSizeType
<1>4. /\ FooterWritten(job.offset, wcat) /\ PagesBelow(wcat, job.offset)
      /\ append_pos = job.offset + CatalogSize(wcat) + 1
  BY <1>1 DEF IInv, CommitInv
<1>5. append_pos <= disk_len
  BY <1>4 DEF FooterWritten
<1>6. disk' \in [Cells' -> Cell]
  BY <1>1, <1>2, <1>5 DEF Cells
<1>7. TypeOK'
  BY <1>1, <1>2, <1>6 DEF IInv, TypeOK, JobOK
<1>8. CatalogWritten(job.offset, wcat)'
  <2>1. \A k \in 0 .. CatalogSize(wcat) - 1 :
          job.offset + k \in 0 .. append_pos - 1
    BY <1>2, <1>3, <1>4
  <2>2. \A k \in 0 .. CatalogSize(wcat) - 1 :
          disk'[job.offset + k] = CatalogPart(wcat, k)
    BY <1>1, <1>4, <2>1 DEF FooterWritten, CatalogWritten
  <2> QED
    BY <1>1, <1>2, <1>3, <1>4, <2>2 DEF CatalogWritten
<1>9. FooterWritten(job.offset, wcat)'
  <2>1. job.offset + CatalogSize(wcat) \in 0 .. append_pos - 1
    BY <1>2, <1>3, <1>4
  <2> QED
    BY <1>1, <1>4, <1>8, <2>1 DEF FooterWritten
<1>10. CommitInv'
  BY <1>1, <1>4, <1>9 DEF CommitInv
<1> QED
  BY <1>1, <1>7, <1>10
  DEF IInv, ModeInv, LoopInv, ClosedInv, CreatedInv, IdleInv, PagesInv

\* ReloadCatalog keeps the invariant: it reads back the writer's catalog.
LEMMA ReloadInv ==
  ASSUME IInv, Reload
  PROVE  IInv' /\ DiskCatalog = wcat
<1>1. /\ pc = "reload" /\ pc' = "idle" /\ job' = NoJob /\ CatalogReadable
      /\ file_size' = disk_len /\ rcat' = DiskCatalog
      /\ UNCHANGED <<disk, disk_len, append_pos, wcat, catalog_offset,
                     next_page_id, mode>>
  BY DEF Reload
<1>2. CatalogSize(wcat) \in Nat \ {0} /\ job.offset \in Nat
  BY <1>1, CatalogSizeType DEF IInv, TypeOK, JobOK, CommitJob
<1>3. /\ FooterWritten(job.offset, wcat) /\ PagesBelow(wcat, job.offset)
      /\ disk_len = job.offset + CatalogSize(wcat) + 1
      /\ append_pos = disk_len /\ catalog_offset = job.offset
  BY <1>1 DEF IInv, CommitInv
<1>4. FooterOffset = job.offset /\ DiskCatalog = wcat
  <2>1. disk_len - 1 = job.offset + CatalogSize(wcat)
    BY <1>2, <1>3
  <2>2. FooterOffset = job.offset
    BY <1>3, <2>1 DEF FooterOffset, FooterWritten, Footer
  <2>3. disk[job.offset + 0] = CatalogPart(wcat, 0)
    BY <1>2, <1>3 DEF FooterWritten, CatalogWritten
  <2> QED
    BY <1>2, <2>2, <2>3 DEF DiskCatalog, CatalogPart
<1>5. TypeOK'
  BY <1>1, <1>4 DEF IInv, TypeOK, JobOK, Cells
<1>6. /\ CatalogReadable' /\ DiskCatalog' = DiskCatalog
      /\ FooterOffset' = FooterOffset
  BY <1>1 DEF CatalogReadable, DiskCatalog, FooterOffset
<1>7. IdleInv'
  BY <1>1, <1>3, <1>4, <1>6 DEF IdleInv
<1>8. mode = "opened"
  BY <1>1 DEF IInv, ModeInv, TypeOK
<1> QED
  BY <1>1, <1>4, <1>5, <1>7, <1>8
  DEF IInv, ModeInv, LoopInv, ClosedInv, CreatedInv, PagesInv, CommitInv
-----------------------------------------------------------------------------
(* The invariant holds, and with it what a program relies on.              *)

\* Every step, whatever the call it belongs to, keeps the invariant.
LEMMA NextInv ==
  ASSUME IInv, [Next]_vars
  PROVE  IInv'
<1>1. ASSUME Call PROVE IInv'
  <2>1. CASE Create
    BY <2>1, CreateInv
  <2>2. CASE Open
    BY <2>2, OpenInv
  <2>3. CASE Close
    BY <2>3, CloseInv
  <2>4. ASSUME NEW p \in Path, NEW c \in Content, AddFile(p, c) PROVE IInv'
    BY <2>4, AddFileInv
  <2>5. ASSUME NEW p \in Path, NEW soft \in BOOLEAN, DeleteFile(p, soft) PROVE IInv'
    BY <2>5, DeleteFileInv
  <2>6. ASSUME NEW p \in Path, NEW q \in Path, RenameFile(p, q) PROVE IInv'
    BY <2>6, RenameFileInv
  <2>7. ASSUME NEW p \in Path, NEW call \in {"delete", "rename"},
               \/ MissingFile(call, p) \/ ExtractFile(p) \/ RecoverFile(p)
        PROVE  IInv'
    BY <2>7, AnswerInv DEF MissingFile, ExtractFile, RecoverFile
  <2> QED
    BY <1>1, <2>1, <2>2, <2>3, <2>4, <2>5, <2>6, <2>7 DEF Call
<1>2. ASSUME Step PROVE IInv'
  BY <1>2, WritePageInv, WriteLastPageInv, PatchPageInv, PatchLastPageInv,
     WriteCatalogInv, WriteFooterInv, WriteLastFooterInv, TruncateInv, ReloadInv
  DEF Step
<1>3. CASE UNCHANGED vars
  BY <1>3, AnswerInv DEF vars, io, memory
<1> QED
  BY <1>1, <1>2, <1>3 DEF Next

\* The inductive invariant holds in every state of every behaviour.
LEMMA InductiveInvariant == Spec => []IInv
<1>1. Init => IInv
  BY InitInv
<1>2. IInv /\ [Next]_vars => IInv'
  BY NextInv
<1> QED
  BY <1>1, <1>2, PTL DEF Spec

\* Every variable keeps its type through every sequence of calls: the cells
\* of the file, both catalogs and the locals of the call in progress.
THEOREM TypeCorrect == Spec => []TypeOK
<1>1. IInv => TypeOK
  BY DEF IInv
<1> QED
  BY <1>1, InductiveInvariant, PTL

\* Between calls no page of a listed file is at or behind catalog_offset_,
\* where the next call writes (archive.cc:51).
THEOREM PagesBeforeCatalog == Spec => []CatalogAfterPages
<1>1. IInv => CatalogAfterPages
  BY DEF IInv, IdleInv, CatalogAfterPages
<1> QED
  BY <1>1, InductiveInvariant, PTL

\* Between calls the file is a complete archive that lists what reader and
\* writer list.
THEOREM CompleteBetweenCalls == Spec => []IdleArchiveComplete
<1>1. IInv => IdleArchiveComplete
  BY DEF IInv, IdleInv, IdleArchiveComplete
<1> QED
  BY <1>1, InductiveInvariant, PTL

\* An archive that was closed can be opened again.
THEOREM ClosedCanBeOpened == Spec => []ClosedArchiveReadable
<1>1. IInv => ClosedArchiveReadable
  BY DEF IInv, ClosedInv, ClosedArchiveReadable
<1> QED
  BY <1>1, InductiveInvariant, PTL

-----------------------------------------------------------------------------
(* Pages are apart.                                                        *)

\* Two pages have different ids and share no cell.
Apart(a, b) ==
  /\ a.id # b.id
  /\ \/ a.offset + 1 + a.size <= b.offset
     \/ b.offset + 1 + b.size <= a.offset

\* Page n of pages is not page m of it.
AllApart(pages) ==
  \A m, n \in DOMAIN pages : m # n => Apart(pages[m], pages[n])

\* No page of the one is a page of the other.
NoneShared(pages, others) ==
  \A m \in DOMAIN pages, n \in DOMAIN others : Apart(pages[m], others[n])

PagesApart(cat) ==
  /\ \A p \in Entries(cat) : AllApart(cat[p].pages)
  /\ \A p, q \in Entries(cat) : p # q => NoneShared(cat[p].pages, cat[q].pages)

IdsBelow(cat, limit) ==
  \A p \in Entries(cat) : \A n \in DOMAIN cat[p].pages : cat[p].pages[n].id < limit

\* The pages of the catalog on disk and of the writer's are apart, and those
\* that AddFile has written so far are apart from them and each other; the
\* next page id is new.
ApartInv ==
  /\ PagesApart(wcat) /\ IdsBelow(wcat, next_page_id)
  /\ mode = "closed" => PagesApart(DiskCatalog)
  /\ pc = "write_page" =>
       /\ \A n \in DOMAIN job.pages : job.pages[n].id < next_page_id
       /\ AllApart(job.pages)
       /\ \A q \in Entries(wcat) : NoneShared(job.pages, wcat[q].pages)

\* What a page reference consists of.
LEMMA PageRefFields ==
  ASSUME NEW ref \in PageRef
  PROVE  ref.id \in Nat /\ ref.offset \in Nat /\ ref.size \in Nat
BY DEF PageRef

\* The pages of a catalog are page references.
LEMMA PageRefsOf ==
  ASSUME NEW cat \in Catalog, NEW p \in Entries(cat), NEW n \in DOMAIN cat[p].pages
  PROVE  cat[p] \in Entry /\ cat[p].pages[n] \in PageRef
<1>1. cat[p] \in Entry
  BY DEF Entries, Catalog
<1> QED
  BY <1>1 DEF Entry

\* The first id of a session is larger than any in the catalog.
LEMMA NextPageIdNew ==
  ASSUME NEW cat \in Catalog
  PROVE  IdsBelow(cat, NextPageId(cat))
<1> SUFFICES ASSUME NEW p \in Entries(cat), NEW n \in DOMAIN cat[p].pages
             PROVE  cat[p].pages[n].id < NextPageId(cat)
  BY DEF IdsBelow
<1> DEFINE Largest(i) == \A j \in PageIds(cat) : j <= i
<1>1. PageIds(cat) \in SUBSET Nat /\ IsFiniteSet(PageIds(cat))
  BY PageIdsFinite
<1>2. cat[p].pages[n].id \in PageIds(cat)
  BY DEF PageIds, Entries
<1>3. \E m \in PageIds(cat) : Largest(m)
  BY <1>1, <1>2, LargestExists
<1> DEFINE top == CHOOSE i \in PageIds(cat) : Largest(i)
<1>4. top \in PageIds(cat) /\ Largest(top)
  BY <1>3, Zenon
<1>5. NextPageId(cat) = 1 + top
  BY <1>2 DEF NextPageId
<1>6. top \in Nat /\ cat[p].pages[n].id \in Nat /\ cat[p].pages[n].id <= top
  BY <1>1, <1>2, <1>4
<1> HIDE DEF top
<1> QED
  BY <1>5, <1>6

\* A catalog in which path p gets an entry whose pages are apart from each
\* other and from those of the other files, or loses its entry.
LEMMA PagesApartPut ==
  ASSUME NEW cat \in Catalog, PagesApart(cat),
         NEW p \in Path, NEW e \in Entry \cup {NoEntry},
         e # NoEntry =>
           /\ AllApart(e.pages)
           /\ \A q \in Entries(cat) : q # p => NoneShared(e.pages, cat[q].pages)
  PROVE  PagesApart([cat EXCEPT ![p] = e])
<1> DEFINE new == [cat EXCEPT ![p] = e]
<1>1. new[p] = e /\ \A q \in Path : q # p => new[q] = cat[q]
  BY DEF Catalog
<1> HIDE DEF new
<1>2. ASSUME NEW q \in Entries(new) PROVE AllApart(new[q].pages)
  BY <1>1 DEF Entries, PagesApart
<1>3. ASSUME NEW q \in Entries(new), NEW r \in Entries(new), q # r
      PROVE  NoneShared(new[q].pages, new[r].pages)
  <2>1. CASE q = p
    BY <1>1, <1>3, <2>1 DEF Entries
  <2>2. CASE r = p
    <3>1. NoneShared(e.pages, cat[q].pages)
      BY <1>1, <1>3, <2>2 DEF Entries
    <3>2. new[r].pages = e.pages /\ new[q].pages = cat[q].pages
      BY <1>1, <1>3, <2>2 DEF Entries
    <3> QED
      BY <3>1, <3>2 DEF NoneShared, Apart
  <2>3. CASE q # p /\ r # p
    BY <1>1, <1>3, <2>3 DEF Entries, PagesApart
  <2> QED
    BY <2>1, <2>2, <2>3
<1>4. PagesApart(new)
  BY <1>2, <1>3 DEF PagesApart
<1> QED
  BY <1>4 DEF new

\* The same for the ids.
LEMMA IdsBelowPut ==
  ASSUME NEW cat \in Catalog, NEW limit, IdsBelow(cat, limit),
         NEW p \in Path, NEW e \in Entry \cup {NoEntry},
         e # NoEntry => \A n \in DOMAIN e.pages : e.pages[n].id < limit
  PROVE  IdsBelow([cat EXCEPT ![p] = e], limit)
<1> DEFINE new == [cat EXCEPT ![p] = e]
<1>1. new[p] = e /\ \A q \in Path : q # p => new[q] = cat[q]
  BY DEF Catalog
<1> HIDE DEF new
<1>2. IdsBelow(new, limit)
  BY <1>1 DEF IdsBelow, Entries
<1> QED
  BY <1>2 DEF new

\* An entry that takes another path, which is what a rename is.
LEMMA PagesApartMoved ==
  ASSUME NEW cat \in Catalog, PagesApart(cat), NEW limit, IdsBelow(cat, limit),
         NEW p \in Entries(cat), NEW q \in Path
  PROVE  LET new == [cat EXCEPT ![p] = NoEntry, ![q] = cat[p]]
         IN PagesApart(new) /\ IdsBelow(new, limit)
<1> DEFINE without == [cat EXCEPT ![p] = NoEntry]
<1>1. cat[p] \in Entry /\ p \in Path
  BY DEF Catalog, Entries
<1>2. without \in Catalog /\ PagesApart(without) /\ IdsBelow(without, limit)
  BY <1>1, PagesApartPut, IdsBelowPut DEF Catalog
<1>3. AllApart(cat[p].pages) /\ \A n \in DOMAIN cat[p].pages : cat[p].pages[n].id < limit
  BY DEF PagesApart, IdsBelow
<1>4. \A r \in Entries(without) : r # p /\ r \in Entries(cat) /\ without[r] = cat[r]
  BY <1>1 DEF Entries, Catalog
<1>5. \A r \in Entries(without) : NoneShared(cat[p].pages, without[r].pages)
  BY <1>4 DEF PagesApart
<1> HIDE DEF without
<1>6. PagesApart([without EXCEPT ![q] = cat[p]]) /\ IdsBelow([without EXCEPT ![q] = cat[p]], limit)
  BY <1>1, <1>2, <1>3, <1>5, PagesApartPut, IdsBelowPut
<1> QED
  BY <1>6 DEF without

\* The page that WritePage writes next is behind all others, with an id of its
\* own.
LEMMA NewPageApart ==
  ASSUME IInv, ApartInv, pc = "write_page", AppendWrite(PageWrite)
  PROVE  /\ \A n \in DOMAIN PagesWritten : PagesWritten[n].id < next_page_id + 1
         /\ AllApart(PagesWritten)
         /\ \A q \in Entries(wcat) : NoneShared(PagesWritten, wcat[q].pages)
<1>1. /\ job.pages \in Seq(PageRef) /\ append_pos \in Nat /\ next_page_id \in Nat
      /\ wcat \in Catalog
  BY DEF IInv, TypeOK, JobOK, AddJob
<1>2. /\ NewPage \in PageRef /\ PagesWritten = Append(job.pages, NewPage)
      /\ NewPage.id = next_page_id /\ NewPage.offset = append_pos
  BY PageWritten DEF NewPage
<1>3. ASSUME NEW n \in DOMAIN job.pages
      PROVE  Apart(job.pages[n], NewPage) /\ Apart(NewPage, job.pages[n])
  <2>1. job.pages[n] \in PageRef
    BY <1>1
  <2>2. /\ job.pages[n].offset + 1 + job.pages[n].size <= append_pos
        /\ job.pages[n].id < next_page_id
    BY DEF IInv, PagesInv, ApartInv
  <2>3. /\ job.pages[n].id \in Nat /\ job.pages[n].offset \in Nat
        /\ job.pages[n].size \in Nat
    BY <2>1, PageRefFields
  <2> QED
    BY <1>1, <1>2, <2>2, <2>3 DEF Apart
<1>4. PagesBelow(wcat, append_pos)
  <2>1. CASE mode = "created"
    BY <2>1 DEF IInv, CreatedInv
  <2>2. CASE mode = "opened"
    BY <2>2, <1>1, PagesBelowLater DEF IInv, TypeOK, PagesInv
  <2> QED
    BY <2>1, <2>2 DEF IInv, ModeInv, TypeOK
<1>5. ASSUME NEW q \in Entries(wcat), NEW m \in DOMAIN wcat[q].pages
      PROVE  Apart(NewPage, wcat[q].pages[m])
  <2>1. /\ wcat[q].pages[m].id \in Nat /\ wcat[q].pages[m].offset \in Nat
        /\ wcat[q].pages[m].size \in Nat
    BY <1>1, PageRefsOf, PageRefFields
  <2>2. /\ wcat[q].pages[m].offset + 1 + wcat[q].pages[m].size <= append_pos
        /\ wcat[q].pages[m].id < next_page_id
    BY <1>4 DEF PagesBelow, ApartInv, IdsBelow
  <2> QED
    BY <1>1, <1>2, <2>1, <2>2 DEF Apart
<1>6. \A n \in DOMAIN PagesWritten :
        \/ n \in DOMAIN job.pages /\ PagesWritten[n] = job.pages[n]
        \/ n = Len(job.pages) + 1 /\ PagesWritten[n] = NewPage
  BY <1>1, <1>2
<1>7. /\ \A n \in DOMAIN job.pages : job.pages[n].id < next_page_id
      /\ AllApart(job.pages)
      /\ \A q \in Entries(wcat) : NoneShared(job.pages, wcat[q].pages)
  BY DEF ApartInv
<1>8. ASSUME NEW n \in DOMAIN PagesWritten PROVE PagesWritten[n].id < next_page_id + 1
  <2>1. CASE n \in DOMAIN job.pages /\ PagesWritten[n] = job.pages[n]
    <3>1. job.pages[n].id \in Nat
      BY <1>1, <2>1, PageRefFields
    <3> QED
      BY <1>1, <1>7, <2>1, <3>1
  <2>2. CASE PagesWritten[n] = NewPage
    BY <1>1, <1>2, <2>2
  <2> QED
    BY <1>6, <2>1, <2>2
<1>9. AllApart(PagesWritten)
  BY <1>3, <1>6, <1>7 DEF AllApart
<1>10. \A q \in Entries(wcat) : NoneShared(PagesWritten, wcat[q].pages)
  BY <1>5, <1>6, <1>7 DEF NoneShared
<1> QED
  BY <1>8, <1>9, <1>10
-----------------------------------------------------------------------------
(* Every step keeps the pages apart.                                       *)

\* The empty catalog has no pages.
LEMMA EmptyApart ==
  PagesApart(EmptyCatalog) /\ \A limit : IdsBelow(EmptyCatalog, limit)
BY DEF PagesApart, IdsBelow, Entries, EmptyCatalog

\* A step that leaves the writer's catalog alone and is not about new pages.
LEMMA ApartKept ==
  ASSUME ApartInv, UNCHANGED <<wcat, next_page_id>>, pc' # "write_page",
         mode' = "closed" => mode = "closed" /\ UNCHANGED <<disk, disk_len>>
  PROVE  ApartInv'
<1>1. mode' = "closed" => DiskCatalog' = DiskCatalog
  BY DEF DiskCatalog, FooterOffset
<1> QED
  BY <1>1 DEF ApartInv

\* AddFile starts with no page, and each turn of its loop adds one.
LEMMA AddFileApart ==
  ASSUME IInv, ApartInv,
         \/ \E p \in Path, c \in Content : AddFile(p, c)
         \/ WritePage \/ WriteLastPage
  PROVE  ApartInv'
<1>1. ASSUME NEW p \in Path, NEW c \in Content, AddFile(p, c) PROVE ApartInv'
  <2>1. /\ job'.pages = <<>> /\ UNCHANGED <<wcat, next_page_id>> /\ mode' # "closed"
    BY <1>1 DEF AddFile, memory
  <2> QED
    BY <2>1 DEF ApartInv, AllApart, NoneShared
<1>2. CASE WritePage
  <2>1. /\ wcat' = wcat /\ next_page_id' = next_page_id + 1 /\ mode' = mode
        /\ pc = "write_page" /\ AppendWrite(PageWrite)
    BY <1>2 DEF WritePage
  <2>2. job'.pages = PagesWritten
    BY <1>2, <2>1 DEF WritePage, IInv, TypeOK, JobOK, AddJob
  <2>3. IdsBelow(wcat, next_page_id + 1)
    <3> SUFFICES ASSUME NEW q \in Entries(wcat), NEW n \in DOMAIN wcat[q].pages
                 PROVE  wcat[q].pages[n].id < next_page_id + 1
      BY DEF IdsBelow
    <3>1. wcat[q].pages[n].id \in Nat /\ next_page_id \in Nat
      BY PageRefsOf, PageRefFields DEF IInv, TypeOK
    <3> QED
      BY <3>1 DEF ApartInv, IdsBelow
  <2>4. mode # "closed"
    BY <2>1 DEF IInv, ModeInv
  <2> QED
    BY <2>1, <2>2, <2>3, <2>4, NewPageApart DEF ApartInv
<1>3. CASE WriteLastPage
  <2> DEFINE e == [content |-> job.content, deleted |-> FALSE, pages |-> PagesWritten]
  <2>1. /\ wcat' = [wcat EXCEPT ![job.path] = e]
        /\ next_page_id' = next_page_id + 1 /\ mode' = mode
        /\ pc = "write_page" /\ pc' # "write_page" /\ AppendWrite(PageWrite)
    BY <1>3 DEF WriteLastPage
  <2>2. /\ job.path \in Path /\ job.content \in Content /\ wcat \in Catalog
        /\ next_page_id \in Nat
    BY <2>1 DEF IInv, TypeOK, JobOK, AddJob
  <2>3. e \in Entry
    <3>1. PagesWritten \in Seq(PageRef) /\ Len(PagesWritten) = Len(job.pages) + 1
      BY <2>1, PageAppended
    <3>2. Len(job.pages) \in Nat
      BY <2>1 DEF IInv, TypeOK, JobOK, AddJob
    <3> QED
      BY <2>2, <3>1, <3>2 DEF Entry
  <2>4. /\ \A n \in DOMAIN e.pages : e.pages[n].id < next_page_id + 1
        /\ AllApart(e.pages)
        /\ \A q \in Entries(wcat) : NoneShared(e.pages, wcat[q].pages)
    BY <2>1, NewPageApart
  <2>5. IdsBelow(wcat, next_page_id + 1)
    <3> SUFFICES ASSUME NEW q \in Entries(wcat), NEW n \in DOMAIN wcat[q].pages
                 PROVE  wcat[q].pages[n].id < next_page_id + 1
      BY DEF IdsBelow
    <3>1. wcat[q].pages[n].id \in Nat
      BY <2>2, PageRefsOf, PageRefFields
    <3> QED
      BY <2>2, <3>1 DEF ApartInv, IdsBelow
  <2>6. PagesApart(wcat)
    BY DEF ApartInv
  <2> HIDE DEF e
  <2>7. PagesApart(wcat') /\ IdsBelow(wcat', next_page_id')
    BY <2>1, <2>2, <2>3, <2>4, <2>5, <2>6, PagesApartPut, IdsBelowPut
  <2>8. mode # "closed"
    BY <2>1 DEF IInv, ModeInv
  <2> QED
    BY <2>1, <2>7, <2>8 DEF ApartInv
<1> QED
  BY <1>1, <1>2, <1>3

\* Deleting takes pages away or marks the entry that has them.
LEMMA PatchLastPageApart ==
  ASSUME IInv, ApartInv, PatchLastPage
  PROVE  ApartInv'
<1> DEFINE old == wcat[job.path]
           new == IF job.soft THEN [old EXCEPT !.deleted = TRUE] ELSE NoEntry
<1>1. /\ pc = "patch_page" /\ pc' = "write_catalog" /\ mode' = mode
      /\ next_page_id' = next_page_id
      /\ wcat' = [wcat EXCEPT ![job.path] = new]
  BY DEF PatchLastPage, CommitAt
<1>2. job.path \in Path /\ old \in Entry /\ wcat \in Catalog
  BY <1>1 DEF IInv, TypeOK, JobOK, LoopInv, DeleteJob, Catalog
<1>3. [old EXCEPT !.deleted = TRUE] \in Entry
      /\ [old EXCEPT !.deleted = TRUE].pages = old.pages
  BY <1>2 DEF Entry
<1>4. job.path \in Entries(wcat)
  BY <1>2, NoEntryAssumption DEF Entries
<1>5. new # NoEntry =>
        /\ AllApart(new.pages)
        /\ \A n \in DOMAIN new.pages : new.pages[n].id < next_page_id
        /\ \A q \in Entries(wcat) : q # job.path => NoneShared(new.pages, wcat[q].pages)
  BY <1>3, <1>4 DEF ApartInv, PagesApart, IdsBelow
<1>6. new \in Entry \cup {NoEntry} /\ PagesApart(wcat) /\ IdsBelow(wcat, next_page_id)
  BY <1>3 DEF ApartInv
<1> HIDE DEF old, new
<1>7. PagesApart(wcat') /\ IdsBelow(wcat', next_page_id)
  BY <1>1, <1>2, <1>5, <1>6, PagesApartPut, IdsBelowPut
<1>8. mode # "closed"
  BY <1>1 DEF IInv, ModeInv
<1> QED
  BY <1>1, <1>7, <1>8 DEF ApartInv

\* Every step keeps the pages apart.
LEMMA ApartNext ==
  ASSUME IInv, ApartInv, [Next]_vars
  PROVE  ApartInv'
<1>1. CASE Create
  <2>1. wcat' = EmptyCatalog /\ mode' = "created" /\ pc' = "idle"
    BY <1>1 DEF Create, IInv, ModeInv
  <2> QED
    BY <2>1, EmptyApart DEF ApartInv
<1>2. CASE Open
  <2>1. /\ mode = "closed" /\ mode' = "opened" /\ pc' = "idle"
        /\ wcat' = DiskCatalog /\ next_page_id' = NextPageId(DiskCatalog)
    BY <1>2 DEF Open, IInv, ModeInv
  <2>2. DiskCatalog \in Catalog
    BY <1>2, ReadableCatalog DEF IInv, Open
  <2> QED
    BY <2>1, <2>2, NextPageIdNew DEF ApartInv
<1>3. CASE WriteLastFooter
  <2>1. wcat' = EmptyCatalog /\ pc' = "idle"
    BY <1>3 DEF WriteLastFooter, Release
  <2>2. DiskCatalog' = wcat
    BY <1>3, WriteLastFooterInv
  <2> QED
    BY <2>1, <2>2, EmptyApart DEF ApartInv
<1>4. ASSUME NEW p \in Path, NEW q \in Path, RenameFile(p, q) PROVE ApartInv'
  <2>1. /\ mode = "opened" /\ pc = "idle" /\ mode' = mode /\ pc' = "write_catalog"
        /\ rcat[p] # NoEntry /\ next_page_id' = next_page_id
        /\ wcat' = [wcat EXCEPT ![p] = NoEntry, ![q] = rcat[p]]
    BY <1>4 DEF RenameFile, CommitAt
  <2>2. wcat = rcat /\ wcat \in Catalog
    BY <2>1 DEF IInv, IdleInv, TypeOK
  <2>3. p \in Entries(wcat)
    BY <2>1, <2>2 DEF Entries
  <2>4. PagesApart(wcat') /\ IdsBelow(wcat', next_page_id)
    BY <2>1, <2>2, <2>3, PagesApartMoved DEF ApartInv
  <2> QED
    BY <2>1, <2>4 DEF ApartInv
<1>5. ASSUME NEW p \in Path, NEW c \in Content, AddFile(p, c) PROVE ApartInv'
  BY <1>5, AddFileApart
<1>6. CASE WritePage \/ WriteLastPage
  BY <1>6, AddFileApart
<1>7. CASE PatchLastPage
  BY <1>7, PatchLastPageApart
<1>8. ASSUME NEW p \in Path, NEW soft \in BOOLEAN, DeleteFile(p, soft) PROVE ApartInv'
  <2>1. UNCHANGED <<wcat, next_page_id>> /\ pc' # "write_page" /\ mode' = "opened"
    BY <1>8 DEF DeleteFile, CommitAt, memory
  <2> QED
    BY <2>1, ApartKept
<1>9. CASE Close \/ PatchPage \/ WriteCatalog \/ WriteFooter \/ Truncate \/ Reload
  <2>1. /\ UNCHANGED <<wcat, next_page_id>> /\ pc' # "write_page" /\ mode' = mode
        /\ pc # "idle" \/ mode # "closed"
    BY <1>9 DEF Close, PatchPage, WriteCatalog, WriteFooter, Truncate, Reload, memory
  <2>2. mode # "closed"
    BY <2>1 DEF IInv, ModeInv
  <2> QED
    BY <2>1, <2>2, ApartKept
<1>10. ASSUME UNCHANGED <<io, memory, mode, pc, job>> PROVE ApartInv'
  <2>1. DiskCatalog' = DiskCatalog
    BY <1>10 DEF DiskCatalog, FooterOffset, io
  <2> QED
    BY <1>10, <2>1 DEF ApartInv, memory
<1>11. ASSUME NEW p \in Path, NEW call \in {"delete", "rename"},
              MissingFile(call, p) \/ ExtractFile(p) \/ RecoverFile(p)
       PROVE  ApartInv'
  BY <1>10, <1>11 DEF MissingFile, ExtractFile, RecoverFile
<1>12. CASE UNCHANGED vars
  BY <1>10, <1>12 DEF vars, io, memory
<1> QED
  BY <1>1, <1>2, <1>3, <1>4, <1>5, <1>6, <1>7, <1>8, <1>9, <1>11, <1>12
  DEF Next, Call, Step

\* The pages are apart in every state.
LEMMA PagesAlwaysApart == Spec => [](IInv /\ ApartInv)
<1>1. Init => ApartInv
  <2>1. ASSUME Init PROVE DiskCatalog = EmptyCatalog
    <3>1. disk_len = 3 /\ disk[2] = Footer(1, EmptyCatalog)
          /\ disk[1] = CatalogPart(EmptyCatalog, 0)
      BY <2>1 DEF Init
    <3> QED
      BY <3>1 DEF DiskCatalog, FooterOffset, Footer, CatalogPart
  <2> QED
    BY <2>1, EmptyApart DEF Init, ApartInv
<1>2. IInv /\ ApartInv /\ [Next]_vars => ApartInv'
  BY ApartNext
<1> QED
  BY <1>1, <1>2, InductiveInvariant, PTL DEF Spec

\* No two pages of the catalog have the same id, across sessions, deletions
\* and renames: the page cache that is keyed by the id cannot mix them up.
THEOREM IdsNeverShared == Spec => []PageIdsUnique
<1>1. ApartInv => PageIdsUnique
  <2> SUFFICES ASSUME ApartInv, NEW p \in Entries(wcat), NEW q \in Entries(wcat),
                      NEW m \in DOMAIN wcat[p].pages, NEW n \in DOMAIN wcat[q].pages,
                      wcat[p].pages[m].id = wcat[q].pages[n].id
               PROVE  p = q /\ m = n
    BY DEF PageIdsUnique
  <2>1. ~Apart(wcat[p].pages[m], wcat[q].pages[n])
    BY DEF Apart
  <2>2. p = q
    BY <2>1 DEF ApartInv, PagesApart, NoneShared
  <2> QED
    BY <2>1, <2>2 DEF ApartInv, PagesApart, AllApart
<1> QED
  BY <1>1, PagesAlwaysApart, PTL
-----------------------------------------------------------------------------
(* What was added is on disk.                                              *)

\* d holds the cells of the n-th page of e, of all its pages, of all files.
PageIn(d, e, n) ==
  LET ref == e.pages[n] IN
    /\ d[ref.offset] = PageHeader(ref.id, e.deleted)
    /\ \A k \in 1 .. ref.size : d[ref.offset + k] = Data(e.content, n, k)
EntryIn(d, e) == \A n \in DOMAIN e.pages : PageIn(d, e, n)
CatalogIn(d, cat) == \A p \in Entries(cat) : EntryIn(d, cat[p])

\* The entry of a file with these pages, live or soft-deleted.
NewEntry(c, pages) == [content |-> c, deleted |-> FALSE, pages |-> pages]
Marked(e) == [e EXCEPT !.deleted = TRUE]

\* Every file that the writer lists is on disk, and every file of an archive
\* that is closed; of a file that is being added, the pages written so far; of
\* a file that is being soft-deleted all pages, those behind the loop marked.
DiskInv ==
  /\ pc # "patch_page" => CatalogIn(disk, wcat)
  /\ mode = "closed" => CatalogIn(disk, DiskCatalog)
  /\ pc = "write_page" => EntryIn(disk, NewEntry(job.content, job.pages))
  /\ pc = "patch_page" =>
       /\ \A p \in Entries(wcat) : p # job.path => EntryIn(disk, wcat[p])
       /\ job.soft =>
            \A n \in DOMAIN wcat[job.path].pages :
              PageIn(disk, IF n < job.n THEN Marked(wcat[job.path])
                           ELSE wcat[job.path], n)

\* A commit never starts before the catalog that it replaces.
OffsetInv ==
  mode = "opened" =>
    /\ pc = "write_catalog" => catalog_offset <= append_pos
    /\ pc \in {"write_footer", "truncate", "reload"} => catalog_offset <= job.offset

PInv == IInv /\ ApartInv /\ DiskInv /\ OffsetInv

\* A page is there as long as its cells are.
LEMMA PageKept ==
  ASSUME NEW d, NEW d2, NEW e, NEW n, e.pages[n] \in PageRef, PageIn(d, e, n),
         \A i \in Span(e.pages[n].offset, e.pages[n].offset + 1 + e.pages[n].size) :
           d2[i] = d[i]
  PROVE  PageIn(d2, e, n)
<1> DEFINE ref == e.pages[n]
<1>1. ref.offset \in Nat /\ ref.size \in Nat
  BY PageRefFields
<1> HIDE DEF ref
<1>2. ref.offset \in Span(ref.offset, ref.offset + 1 + ref.size)
  BY <1>1 DEF Span
<1>3. \A k \in 1 .. ref.size : ref.offset + k \in Span(ref.offset, ref.offset + 1 + ref.size)
  BY <1>1 DEF Span
<1> QED
  BY <1>2, <1>3 DEF PageIn, ref

\* The files of a catalog are there as long as the cells before the end of
\* their last page are.
LEMMA CatalogKept ==
  ASSUME NEW d, NEW d2, NEW cat \in Catalog, NEW limit \in Nat,
         PagesBelow(cat, limit), CatalogIn(d, cat),
         \A i \in 0 .. limit - 1 : d2[i] = d[i]
  PROVE  CatalogIn(d2, cat)
<1> SUFFICES ASSUME NEW p \in Entries(cat), NEW n \in DOMAIN cat[p].pages
             PROVE  PageIn(d2, cat[p], n)
  BY DEF CatalogIn, EntryIn
<1> DEFINE ref == cat[p].pages[n]
<1>1. ref \in PageRef /\ ref.offset \in Nat /\ ref.size \in Nat
  BY PageRefsOf, PageRefFields
<1>2. ref.offset + 1 + ref.size <= limit
  BY DEF PagesBelow
<1>3. \A i \in Span(ref.offset, ref.offset + 1 + ref.size) : i \in 0 .. limit - 1
  BY <1>1, <1>2 DEF Span
<1>4. PageIn(d, cat[p], n)
  BY DEF CatalogIn, EntryIn
<1> QED
  BY <1>1, <1>3, <1>4, PageKept

\* Path p gets an entry that is on disk, or loses its entry.
LEMMA CatalogInPut ==
  ASSUME NEW d, NEW cat \in Catalog, NEW p \in Path, NEW e,
         \A q \in Entries(cat) : q # p => EntryIn(d, cat[q]),
         e # NoEntry => EntryIn(d, e)
  PROVE  CatalogIn(d, [cat EXCEPT ![p] = e])
<1> DEFINE new == [cat EXCEPT ![p] = e]
<1>1. new[p] = e /\ \A q \in Path : q # p => new[q] = cat[q]
  BY DEF Catalog
<1> HIDE DEF new
<1>2. CatalogIn(d, new)
  BY <1>1 DEF CatalogIn, Entries
<1> QED
  BY <1>2 DEF new

\* A catalog without files.
LEMMA EmptyIn ==
  \A d : CatalogIn(d, EmptyCatalog)
BY DEF CatalogIn, Entries, EmptyCatalog

\* While a file is added, its pages and those of the others are before the
\* append position.
LEMMA PagesBeforeAppend ==
  ASSUME IInv, pc = "write_page"
  PROVE  append_pos \in Nat /\ append_pos <= disk_len /\ PagesBelow(wcat, append_pos)
<1>1. append_pos \in Nat /\ wcat \in Catalog /\ catalog_offset \in Nat /\ disk_len \in Nat
  BY DEF IInv, TypeOK
<1>2. CASE mode = "created"
  BY <1>1, <1>2 DEF IInv, CreatedInv
<1>3. CASE mode = "opened"
  BY <1>1, <1>3, PagesBelowLater DEF IInv, PagesInv
<1> QED
  BY <1>2, <1>3 DEF IInv, ModeInv, TypeOK

\* A page of the file that is added: it is on disk, with those before it.
LEMMA PageAdded ==
  ASSUME PInv, pc = "write_page", AppendWrite(PageWrite)
  PROVE  /\ CatalogIn(disk', wcat)
         /\ EntryIn(disk', NewEntry(job.content, PagesWritten))
<1>1. /\ wcat \in Catalog /\ job.pages \in Seq(PageRef) /\ next_page_id \in Nat
  BY DEF PInv, IInv, TypeOK, JobOK, AddJob
<1>2. append_pos \in Nat /\ append_pos <= disk_len /\ disk_len \in Nat
      /\ PagesBelow(wcat, append_pos)
  BY PagesBeforeAppend DEF PInv, IInv, TypeOK
<1>3. \A i \in 0 .. append_pos - 1 : disk'[i] = disk[i]
  BY <1>2, PageWritten DEF PInv, Cells
<1>4. CatalogIn(disk', wcat)
  BY <1>1, <1>2, <1>3, CatalogKept DEF PInv, DiskInv
<1> DEFINE before == NewEntry(job.content, job.pages)
           after == NewEntry(job.content, PagesWritten)
<1>5. /\ NewPage \in PageRef /\ PagesWritten = Append(job.pages, NewPage)
      /\ NewPage.id = next_page_id /\ NewPage.offset = append_pos
      /\ disk'[append_pos] = PageHeader(next_page_id, FALSE)
      /\ \A k \in 1 .. NewPage.size :
           disk'[append_pos + k] = Data(job.content, Len(job.pages) + 1, k)
  BY PageWritten DEF PInv, NewPage
<1>6. ASSUME NEW n \in DOMAIN job.pages PROVE PageIn(disk', after, n)
  <2>1. before.pages[n] \in PageRef /\ PageIn(disk, before, n)
    <3>1. before.pages = job.pages
      BY DEF NewEntry
    <3>2. EntryIn(disk, before)
      BY DEF PInv, DiskInv
    <3> HIDE DEF before
    <3> QED
      BY <1>1, <3>1, <3>2 DEF EntryIn
  <2>2. /\ before.pages[n].offset \in Nat /\ before.pages[n].size \in Nat
        /\ before.pages[n].offset + 1 + before.pages[n].size <= append_pos
    BY <2>1, PageRefFields DEF PInv, IInv, PagesInv, NewEntry
  <2>3. \A i \in Span(before.pages[n].offset,
                      before.pages[n].offset + 1 + before.pages[n].size) :
          i \in 0 .. append_pos - 1
    BY <1>2, <2>2 DEF Span
  <2>4. PageIn(disk', before, n)
    BY <1>3, <2>1, <2>3, PageKept
  <2>5. after.pages[n] = before.pages[n] /\ after.content = before.content
        /\ after.deleted = before.deleted
    BY <1>1, <1>5 DEF NewEntry
  <2> HIDE DEF before, after
  <2> QED
    BY <2>4, <2>5 DEF PageIn
<1>7. PageIn(disk', after, Len(job.pages) + 1)
  <2>1. after.pages[Len(job.pages) + 1] = NewPage
        /\ after.content = job.content /\ after.deleted = FALSE
    BY <1>1, <1>5 DEF NewEntry
  <2> HIDE DEF after
  <2> QED
    BY <1>5, <2>1 DEF PageIn
<1>8. \A n \in DOMAIN after.pages : n \in DOMAIN job.pages \/ n = Len(job.pages) + 1
  BY <1>1, <1>5 DEF NewEntry
<1> HIDE DEF before, after
<1>9. EntryIn(disk', after)
  BY <1>6, <1>7, <1>8 DEF EntryIn
<1> QED
  BY <1>4, <1>9 DEF after

\* Two pages that are apart do not share a cell.
LEMMA ApartSpans ==
  ASSUME NEW a \in PageRef, NEW b \in PageRef, Apart(a, b),
         NEW i \in Span(a.offset, a.offset + 1 + a.size)
  PROVE  i \notin Span(b.offset, b.offset + 1 + b.size)
<1>1. /\ a.offset \in Nat /\ a.size \in Nat /\ b.offset \in Nat /\ b.size \in Nat
  BY PageRefFields
<1> QED
  BY <1>1 DEF Apart, Span

\* One turn of the loop in DeleteFile: the other files are as they were, and
\* of the file itself one page more is marked.
LEMMA PagePatched ==
  ASSUME PInv, pc = "patch_page", WriteAt(PatchWrite)
  PROVE  /\ \A p \in Entries(wcat) : p # job.path => EntryIn(disk', wcat[p])
         /\ job.soft =>
              \A n \in DOMAIN wcat[job.path].pages :
                PageIn(disk', IF n <= job.n THEN Marked(wcat[job.path])
                              ELSE wcat[job.path], n)
<1> DEFINE old == wcat[job.path]
           ref == old.pages[job.n]
           size == IF job.soft THEN 0 ELSE ref.size
<1>1. job \in DeleteJob /\ wcat \in Catalog
  BY DEF PInv, IInv, TypeOK, JobOK
<1>2. job.path \in Entries(wcat) /\ job.n \in Nat /\ job.soft \in BOOLEAN
  BY <1>1 DEF PInv, IInv, LoopInv, DeleteJob, Entries
<1>3. old \in Entry
  BY <1>1, <1>2 DEF Entries, Catalog
<1>4. job.n \in DOMAIN old.pages
  BY <1>1, <1>3 DEF PInv, IInv, LoopInv, DeleteJob, Entry
<1>5. ref \in PageRef /\ ref.offset \in Nat /\ ref.size \in Nat /\ size \in Nat
      /\ size <= ref.size
  BY <1>1, <1>2, <1>4, PageRefsOf, PageRefFields
<1>6. /\ disk'[ref.offset] = Flagged(disk[ref.offset])
      /\ \A i \in Cells \ Span(ref.offset, ref.offset + 1 + size) : disk'[i] = disk[i]
  BY PatchApplied DEF PInv
<1>7. PagesBelow(wcat, catalog_offset) /\ catalog_offset <= disk_len
      /\ catalog_offset \in Nat /\ disk_len \in Nat
  BY DEF PInv, IInv, PagesInv, TypeOK
<1> HIDE DEF ref, size, old
<1>8. ASSUME NEW p \in Entries(wcat), NEW n \in DOMAIN wcat[p].pages,
             NEW i \in Span(wcat[p].pages[n].offset,
                            wcat[p].pages[n].offset + 1 + wcat[p].pages[n].size)
      PROVE  i \in Cells
  <2> DEFINE r == wcat[p].pages[n]
  <2>1. r.offset \in Nat /\ r.size \in Nat
    BY <1>1, PageRefsOf, PageRefFields
  <2>2. r.offset + 1 + r.size <= catalog_offset
    BY <1>7 DEF PagesBelow
  <2> QED
    BY <1>7, <2>1, <2>2 DEF Span, Cells
<1>9. Span(ref.offset, ref.offset + 1 + size) \subseteq Span(ref.offset, ref.offset + 1 + ref.size)
  BY <1>5 DEF Span
<1>10. ASSUME NEW p \in Entries(wcat), NEW n \in DOMAIN wcat[p].pages,
              Apart(wcat[p].pages[n], ref), NEW e, e.pages = wcat[p].pages,
              PageIn(disk, e, n)
       PROVE  PageIn(disk', e, n)
  <2> DEFINE r == wcat[p].pages[n]
  <2>1. r \in PageRef
    BY <1>1, PageRefsOf
  <2>2. ASSUME NEW i \in Span(r.offset, r.offset + 1 + r.size)
        PROVE  disk'[i] = disk[i]
    <3>1. i \in Cells
      BY <1>8
    <3>2. i \notin Span(ref.offset, ref.offset + 1 + ref.size)
      BY <1>5, <1>10, <2>1, ApartSpans
    <3> QED
      BY <1>6, <1>9, <3>1, <3>2
  <2>3. e.pages[n] = r
    BY <1>10
  <2> HIDE DEF r
  <2> QED
    BY <1>10, <2>1, <2>2, <2>3, PageKept
<1>11. ASSUME NEW p \in Entries(wcat), p # job.path, NEW n \in DOMAIN wcat[p].pages
       PROVE  PageIn(disk', wcat[p], n)
  <2>1. Apart(wcat[p].pages[n], ref)
    BY <1>2, <1>4, <1>11 DEF PInv, ApartInv, PagesApart, NoneShared, ref, old
  <2>2. PageIn(disk, wcat[p], n)
    BY <1>11 DEF PInv, DiskInv, EntryIn
  <2> QED
    BY <1>10, <2>1, <2>2
<1>12. ASSUME job.soft, NEW n \in DOMAIN old.pages
       PROVE  PageIn(disk', IF n <= job.n THEN Marked(old) ELSE old, n)
  <2>1. Marked(old).pages = old.pages /\ Marked(old).content = old.content
        /\ Marked(old).deleted = TRUE
    BY <1>3 DEF Marked, Entry
  <2>2. PageIn(disk, IF n < job.n THEN Marked(old) ELSE old, n)
    BY <1>12 DEF PInv, DiskInv, old
  <2>3. n \in Nat
    BY <1>3 DEF Entry
  <2>4. CASE n # job.n
    <3>1. Apart(old.pages[n], ref)
      BY <1>2, <1>4, <2>4, <1>12 DEF PInv, ApartInv, PagesApart, AllApart, ref, old
    <3>2. (n <= job.n) <=> (n < job.n)
      BY <1>2, <2>3, <2>4
    <3>3. old.pages = wcat[job.path].pages
      BY DEF old
    <3>4. CASE n < job.n
      BY <1>2, <1>10, <1>12, <2>1, <2>2, <3>1, <3>2, <3>3, <3>4
    <3>5. CASE ~(n < job.n)
      BY <1>2, <1>10, <1>12, <2>1, <2>2, <3>1, <3>2, <3>3, <3>5
    <3> QED
      BY <3>4, <3>5
  <2>5. CASE n = job.n
    <3>1. ~(n < job.n) /\ n <= job.n
      BY <1>2, <2>5
    <3>2. old.pages[n] = ref
      BY <2>5 DEF ref
    <3>3. /\ disk[ref.offset] = PageHeader(ref.id, old.deleted)
          /\ \A k \in 1 .. ref.size : disk[ref.offset + k] = Data(old.content, n, k)
      BY <2>2, <3>1, <3>2 DEF PageIn
    <3>4. disk'[ref.offset] = PageHeader(ref.id, TRUE)
      BY <1>6, <3>3 DEF Flagged, PageHeader
    <3>5. ASSUME NEW k \in 1 .. ref.size PROVE disk'[ref.offset + k] = disk[ref.offset + k]
      <4>1. size = 0
        BY <1>12 DEF size
      <4>2. ref.offset + k \notin Span(ref.offset, ref.offset + 1 + size)
        BY <1>5, <4>1 DEF Span
      <4>3. ref.offset + k \in Span(ref.offset, ref.offset + 1 + ref.size)
        BY <1>5 DEF Span
      <4>4. ref.offset + k \in Cells
        BY <1>2, <1>4, <1>8, <4>3 DEF ref, old
      <4> QED
        BY <1>6, <4>2, <4>4
    <3>6. PageIn(disk', Marked(old), n)
      BY <2>1, <3>2, <3>3, <3>4, <3>5 DEF PageIn
    <3> QED
      BY <3>1, <3>6
  <2> QED
    BY <2>4, <2>5
<1> QED
  BY <1>11, <1>12 DEF EntryIn, old
-----------------------------------------------------------------------------
(* Every step keeps what is on disk.                                       *)

\* Create, Open and the last step of Close: another catalog is read or begun.
LEMMA SessionDisk ==
  ASSUME PInv, Create \/ Open \/ WriteLastFooter
  PROVE  DiskInv' /\ OffsetInv'
<1>1. CASE Create
  <2>1. wcat' = EmptyCatalog /\ mode' = "created" /\ pc' = "idle"
    BY <1>1 DEF Create, PInv, IInv, ModeInv
  <2> QED
    BY <2>1, EmptyIn DEF DiskInv, OffsetInv
<1>2. CASE Open
  <2>1. /\ mode = "closed" /\ mode' = "opened" /\ pc' = "idle" /\ disk' = disk
        /\ wcat' = DiskCatalog
    BY <1>2 DEF Open, PInv, IInv, ModeInv
  <2> QED
    BY <2>1 DEF PInv, DiskInv, OffsetInv
<1>3. CASE WriteLastFooter
  <2>1. /\ wcat' = EmptyCatalog /\ pc' = "idle" /\ mode' = "closed"
        /\ pc = "write_footer" /\ Transfer(FooterWrite, 1)
    BY <1>3 DEF WriteLastFooter, Release
  <2>2. DiskCatalog' = wcat
    BY <1>3, WriteLastFooterInv DEF PInv
  <2>3. /\ wcat \in Catalog /\ job.offset \in Nat /\ disk_len \in Nat
        /\ PagesBelow(wcat, job.offset) /\ CatalogSize(wcat) \in Nat \ {0}
        /\ append_pos = job.offset + CatalogSize(wcat)
        /\ job.offset + CatalogSize(wcat) <= disk_len
    BY <2>1, CatalogSizeType
    DEF PInv, IInv, TypeOK, JobOK, FooterJob, CommitJob, CommitInv, CatalogWritten
  <2>4. \A i \in 0 .. job.offset - 1 : i \in Cells /\ i < append_pos
    BY <2>3 DEF Cells
  <2>5. \A i \in 0 .. job.offset - 1 : disk'[i] = disk[i]
    BY <2>1, <2>4, FooterAppended DEF PInv
  <2>6. CatalogIn(disk', wcat)
    BY <2>1, <2>3, <2>5, CatalogKept DEF PInv, DiskInv
  <2> QED
    BY <2>1, <2>2, <2>6, EmptyIn DEF DiskInv, OffsetInv
<1> QED
  BY <1>1, <1>2, <1>3

\* Between calls there is room for a commit behind the pages.
LEMMA IdleOffset ==
  ASSUME IInv, mode = "opened", pc = "idle"
  PROVE  /\ catalog_offset \in Nat /\ catalog_offset < disk_len
         /\ append_pos = disk_len /\ wcat = rcat /\ wcat \in Catalog
BY ReadableCatalog DEF IInv, IdleInv, TypeOK

\* The start of a call changes no cell.
LEMMA StartDisk ==
  ASSUME PInv,
         \/ Close
         \/ \E p \in Path :
              \/ \E c \in Content : AddFile(p, c)
              \/ \E soft \in BOOLEAN : DeleteFile(p, soft)
              \/ \E q \in Path : RenameFile(p, q)
  PROVE  DiskInv' /\ OffsetInv'
<1>1. CASE Close
  <2>1. /\ pc = "idle" /\ pc' = "write_catalog" /\ mode # "closed"
        /\ UNCHANGED <<disk, append_pos, catalog_offset, wcat, mode>>
    BY <1>1 DEF Close, io, memory
  <2>2. mode = "opened" => catalog_offset <= append_pos
    BY <2>1, IdleOffset DEF PInv, IInv, TypeOK
  <2> QED
    BY <2>1, <2>2 DEF PInv, DiskInv, OffsetInv
<1>2. ASSUME NEW p \in Path, NEW c \in Content, AddFile(p, c)
      PROVE  DiskInv' /\ OffsetInv'
  <2>1. /\ pc = "idle" /\ pc' = "write_page" /\ mode' # "closed"
        /\ job'.pages = <<>> /\ UNCHANGED <<disk, wcat>>
    BY <1>2 DEF AddFile, memory
  <2>2. NewEntry(job'.content, job'.pages).pages = <<>>
    BY <2>1 DEF NewEntry
  <2>3. EntryIn(disk', NewEntry(job'.content, job'.pages))
    BY <2>2 DEF EntryIn
  <2>4. CatalogIn(disk', wcat')
    BY <2>1 DEF PInv, DiskInv
  <2> QED
    BY <2>1, <2>3, <2>4 DEF DiskInv, OffsetInv
<1>3. ASSUME NEW p \in Path, NEW soft \in BOOLEAN, DeleteFile(p, soft)
      PROVE  DiskInv' /\ OffsetInv'
  <2>1. /\ pc = "idle" /\ mode = "opened" /\ mode' = "opened" /\ wcat[p] # NoEntry
        /\ UNCHANGED <<disk, wcat, catalog_offset>>
    BY <1>3 DEF DeleteFile, memory
  <2>2. CatalogIn(disk, wcat) /\ wcat \in Catalog
    BY <2>1, IdleOffset DEF PInv, DiskInv
  <2>3. CASE pc' = "write_catalog" /\ append_pos' = catalog_offset
    BY <2>1, <2>2, <2>3, IdleOffset DEF PInv, DiskInv, OffsetInv
  <2>4. CASE /\ pc' = "patch_page"
             /\ job' = [call |-> "delete", path |-> p, soft |-> soft, n |-> 1]
    <3>1. p \in Entries(wcat)
      BY <2>1 DEF Entries
    <3>2. wcat[p] \in Entry
      BY <2>2, <3>1 DEF Catalog, Entries
    <3>3. \A n \in DOMAIN wcat[p].pages : ~(n < 1) /\ PageIn(disk, wcat[p], n)
      BY <2>2, <3>1, <3>2 DEF CatalogIn, EntryIn, Entry
    <3> QED
      BY <2>1, <2>2, <2>4, <3>3 DEF DiskInv, OffsetInv, CatalogIn
  <2> QED
    BY <1>3, <2>3, <2>4 DEF DeleteFile, CommitAt
<1>4. ASSUME NEW p \in Path, NEW q \in Path, RenameFile(p, q)
      PROVE  DiskInv' /\ OffsetInv'
  <2> DEFINE without == [wcat EXCEPT ![p] = NoEntry]
  <2>1. /\ mode = "opened" /\ pc = "idle" /\ mode' = mode /\ pc' = "write_catalog"
        /\ append_pos' = catalog_offset /\ catalog_offset' = catalog_offset
        /\ disk' = disk /\ rcat[p] # NoEntry
        /\ wcat' = [without EXCEPT ![q] = rcat[p]]
    BY <1>4 DEF RenameFile, CommitAt
  <2>2. wcat = rcat /\ wcat \in Catalog /\ catalog_offset \in Nat
    BY <2>1, IdleOffset DEF PInv
  <2>3. CatalogIn(disk, wcat) /\ EntryIn(disk, rcat[p])
    BY <2>1, <2>2 DEF PInv, DiskInv, CatalogIn, Entries
  <2>4. without \in Catalog
    BY <2>2 DEF Catalog
  <2>5. CatalogIn(disk, without)
    BY <2>2, <2>3, CatalogInPut DEF CatalogIn
  <2> HIDE DEF without
  <2>6. CatalogIn(disk, wcat')
    BY <2>1, <2>3, <2>4, <2>5, CatalogInPut DEF CatalogIn
  <2> QED
    BY <2>1, <2>2, <2>6 DEF DiskInv, OffsetInv
<1> QED
  BY <1>1, <1>2, <1>3, <1>4

\* Adding pages.
LEMMA AddDisk ==
  ASSUME PInv, WritePage \/ WriteLastPage
  PROVE  DiskInv' /\ OffsetInv'
<1>1. pc = "write_page" /\ AppendWrite(PageWrite) /\ mode' = mode
  BY DEF WritePage, WriteLastPage
<1>2. mode # "closed"
  BY <1>1 DEF PInv, IInv, ModeInv
<1>3. CatalogIn(disk', wcat) /\ EntryIn(disk', NewEntry(job.content, PagesWritten))
  BY <1>1, PageAdded
<1>4. CASE WritePage
  <2>1. pc' = "write_page" /\ wcat' = wcat /\ job' = [job EXCEPT !.pages = PagesWritten]
    BY <1>4 DEF WritePage
  <2>2. job'.pages = PagesWritten /\ job'.content = job.content
    BY <1>1, <2>1 DEF PInv, IInv, TypeOK, JobOK, AddJob
  <2> QED
    BY <1>1, <1>2, <1>3, <2>1, <2>2 DEF DiskInv, OffsetInv
<1>5. CASE WriteLastPage
  <2> DEFINE e == NewEntry(job.content, PagesWritten)
  <2>1. /\ wcat' = [wcat EXCEPT ![job.path] = e]
        /\ pc' \in {"idle", "write_catalog"}
        /\ catalog_offset' = catalog_offset
    BY <1>5 DEF WriteLastPage, NewEntry
  <2>2. job.path \in Path /\ wcat \in Catalog
    BY <1>1 DEF PInv, IInv, TypeOK, JobOK, AddJob
  <2> HIDE DEF e
  <2>3. \A q \in Entries(wcat) : q # job.path => EntryIn(disk', wcat[q])
    BY <1>3 DEF CatalogIn
  <2>4. CatalogIn(disk', wcat')
    BY <1>3, <2>1, <2>2, <2>3, CatalogInPut DEF e
  <2>5. mode = "opened" => catalog_offset <= append_pos'
    <3>1. append_pos \in Nat /\ append_pos' \in Nat /\ append_pos < append_pos'
      BY <1>1, PageAppended DEF PInv, IInv, TypeOK
    <3> QED
      BY <1>1, <3>1 DEF PInv, IInv, TypeOK, PagesInv
  <2> QED
    BY <1>1, <1>2, <2>1, <2>4, <2>5 DEF DiskInv, OffsetInv
<1> QED
  BY <1>4, <1>5

\* Patching pages.
LEMMA PatchDisk ==
  ASSUME PInv, PatchPage \/ PatchLastPage
  PROVE  DiskInv' /\ OffsetInv'
<1> DEFINE old == wcat[job.path]
<1>1. pc = "patch_page" /\ WriteAt(PatchWrite) /\ mode' = mode
      /\ catalog_offset' = catalog_offset
  BY DEF PatchPage, PatchLastPage, memory
<1>2. mode # "closed" /\ wcat \in Catalog /\ job \in DeleteJob /\ catalog_offset \in Nat
  BY <1>1 DEF PInv, IInv, ModeInv, TypeOK, JobOK
<1>3. job.path \in Path /\ job.n \in Nat /\ job.soft \in BOOLEAN
  BY <1>2 DEF DeleteJob
<1>4. old \in Entry
  BY <1>1, <1>2, <1>3 DEF PInv, IInv, LoopInv, Catalog
<1>5. Len(old.pages) \in Nat /\ DOMAIN old.pages = 1 .. Len(old.pages)
  BY <1>4 DEF Entry
<1>6. /\ \A p \in Entries(wcat) : p # job.path => EntryIn(disk', wcat[p])
      /\ job.soft => \A n \in DOMAIN old.pages :
           PageIn(disk', IF n <= job.n THEN Marked(old) ELSE old, n)
  BY <1>1, PagePatched
<1>7. CASE PatchPage
  <2>1. pc' = pc /\ wcat' = wcat /\ job' = [job EXCEPT !.n = @ + 1]
    BY <1>7 DEF PatchPage, memory
  <2>2. job'.path = job.path /\ job'.soft = job.soft /\ job'.n = job.n + 1
    BY <1>2, <2>1 DEF DeleteJob
  <2>3. \A n \in DOMAIN old.pages : (n < job.n + 1) <=> (n <= job.n)
    BY <1>3, <1>5
  <2> HIDE DEF old
  <2>4. job'.soft => \A n \in DOMAIN old.pages :
          PageIn(disk', IF n < job'.n THEN Marked(old) ELSE old, n)
    <3> SUFFICES ASSUME job.soft, NEW n \in DOMAIN old.pages
                 PROVE  PageIn(disk', IF n < job.n + 1 THEN Marked(old) ELSE old, n)
      BY <2>2
    <3>1. PageIn(disk', IF n <= job.n THEN Marked(old) ELSE old, n)
      BY <1>6
    <3>2. CASE n <= job.n
      BY <2>3, <3>1, <3>2
    <3>3. CASE ~(n <= job.n)
      BY <2>3, <3>1, <3>3
    <3> QED
      BY <3>2, <3>3
  <2> QED
    BY <1>1, <1>2, <1>6, <2>1, <2>2, <2>4 DEF DiskInv, OffsetInv, old
<1>8. CASE PatchLastPage
  <2> DEFINE new == IF job.soft THEN Marked(old) ELSE NoEntry
  <2>1. /\ wcat' = [wcat EXCEPT ![job.path] = new] /\ append_pos' = catalog_offset
        /\ pc' = "write_catalog" /\ job.n = Len(old.pages)
    BY <1>8 DEF PatchLastPage, CommitAt, Marked
  <2>2. Marked(old).pages = old.pages
    BY <1>4 DEF Marked, Entry
  <2> HIDE DEF old
  <2>3. ASSUME job.soft PROVE EntryIn(disk', Marked(old))
    <3>1. \A n \in DOMAIN old.pages : n <= job.n
      BY <1>5, <2>1
    <3> QED
      BY <1>6, <2>2, <2>3, <3>1 DEF EntryIn
  <2>4. new # NoEntry => EntryIn(disk', new)
    BY <2>3
  <2> HIDE DEF new
  <2>5. CatalogIn(disk', wcat')
    BY <1>2, <1>3, <1>6, <2>1, <2>4, CatalogInPut
  <2> QED
    BY <1>1, <1>2, <2>1, <2>5 DEF DiskInv, OffsetInv
<1> QED
  BY <1>7, <1>8

\* The writes of a commit are behind the pages, and so is what it cuts off.
LEMMA CommitDisk ==
  ASSUME PInv, WriteCatalog \/ WriteFooter \/ Truncate \/ Reload
  PROVE  DiskInv' /\ OffsetInv'
<1>1. wcat' = wcat /\ mode' = mode /\ pc' \notin {"write_page", "patch_page"}
  BY DEF WriteCatalog, WriteFooter, Truncate, Reload, memory
<1>2. /\ pc \in {"write_catalog", "write_footer", "truncate", "reload"}
      /\ mode # "closed" /\ CatalogIn(disk, wcat) /\ wcat \in Catalog
      /\ disk_len \in Nat /\ append_pos \in Nat /\ CatalogSize(wcat) \in Nat \ {0}
  BY CatalogSizeType
  DEF WriteCatalog, WriteFooter, Truncate, Reload, PInv, IInv, ModeInv, TypeOK, DiskInv
<1>3. CASE WriteCatalog
  <2>1. /\ pc = "write_catalog" /\ pc' = "write_footer"
        /\ catalog_offset' = catalog_offset
        /\ job' = IF job.call = "close" THEN [call |-> "close", offset |-> append_pos]
                  ELSE [call |-> job.call, path |-> job.path, offset |-> append_pos]
    BY <1>3 DEF WriteCatalog, memory
  <2>2. PagesBelow(wcat, append_pos) /\ append_pos <= disk_len
    BY <2>1 DEF PInv, IInv, CommitInv
  <2>3. \A i \in 0 .. append_pos - 1 : disk'[i] = disk[i]
    BY <1>2, <1>3, <2>2, WriteCatalogInv DEF PInv, Cells
  <2>4. CatalogIn(disk', wcat)
    BY <1>2, <2>2, <2>3, CatalogKept
  <2>5. job'.offset = append_pos
    BY <2>1
  <2> QED
    BY <1>1, <1>2, <2>1, <2>4, <2>5 DEF PInv, DiskInv, OffsetInv
<1>4. CASE WriteFooter
  <2>1. /\ pc = "write_footer" /\ pc' = "truncate" /\ job' = job
        /\ catalog_offset' = catalog_offset /\ Transfer(FooterWrite, 1)
    BY <1>4 DEF WriteFooter, AppendWrite, WriteAt, FooterWrite, Write, memory
  <2>2. /\ PagesBelow(wcat, job.offset) /\ job.offset \in Nat
        /\ append_pos = job.offset + CatalogSize(wcat)
        /\ append_pos <= disk_len
    BY <2>1 DEF PInv, IInv, TypeOK, JobOK, FooterJob, CommitJob, CommitInv, CatalogWritten
  <2>3. \A i \in 0 .. job.offset - 1 : i \in Cells /\ i < append_pos
    BY <1>2, <2>2 DEF Cells
  <2>4. \A i \in 0 .. job.offset - 1 : disk'[i] = disk[i]
    BY <2>1, <2>3, FooterAppended DEF PInv
  <2>5. CatalogIn(disk', wcat)
    BY <1>2, <2>2, <2>4, CatalogKept
  <2> QED
    BY <1>1, <1>2, <2>1, <2>5 DEF PInv, DiskInv, OffsetInv
<1>5. CASE Truncate
  <2>1. /\ pc = "truncate" /\ pc' = "reload" /\ job' = job
        /\ catalog_offset' = job.offset
        /\ disk' = [i \in 0 .. append_pos - 1 |-> disk[i]]
    BY <1>5 DEF Truncate
  <2>2. /\ PagesBelow(wcat, job.offset) /\ job.offset \in Nat
        /\ append_pos = job.offset + CatalogSize(wcat) + 1
    BY <2>1 DEF PInv, IInv, TypeOK, JobOK, CommitJob, CommitInv
  <2>3. \A i \in 0 .. job.offset - 1 : i \in 0 .. append_pos - 1
    BY <1>2, <2>2
  <2>4. \A i \in 0 .. job.offset - 1 : disk'[i] = disk[i]
    BY <2>1, <2>3
  <2>5. CatalogIn(disk', wcat)
    BY <1>2, <2>2, <2>4, CatalogKept
  <2> QED
    BY <1>1, <1>2, <2>1, <2>2, <2>5 DEF DiskInv, OffsetInv
<1>6. CASE Reload
  <2>1. pc' = "idle" /\ disk' = disk
    BY <1>6 DEF Reload
  <2> QED
    BY <1>1, <1>2, <2>1 DEF DiskInv, OffsetInv
<1> QED
  BY <1>3, <1>4, <1>5, <1>6

\* Every step keeps what is on disk.
LEMMA DiskNext ==
  ASSUME PInv, [Next]_vars
  PROVE  DiskInv' /\ OffsetInv'
<1>1. ASSUME UNCHANGED <<io, memory, mode, pc, job>> PROVE DiskInv' /\ OffsetInv'
  <2>1. DiskCatalog' = DiskCatalog
    BY <1>1 DEF DiskCatalog, FooterOffset, io
  <2> QED
    BY <1>1, <2>1 DEF PInv, DiskInv, OffsetInv, io, memory
<1>2. ASSUME NEW p \in Path, NEW call \in {"delete", "rename"},
             MissingFile(call, p) \/ ExtractFile(p) \/ RecoverFile(p)
      PROVE  DiskInv' /\ OffsetInv'
  BY <1>1, <1>2 DEF MissingFile, ExtractFile, RecoverFile
<1>3. CASE UNCHANGED vars
  BY <1>1, <1>3 DEF vars, io, memory
<1>4. ASSUME Call PROVE DiskInv' /\ OffsetInv'
  BY <1>2, <1>4, SessionDisk, StartDisk DEF Call
<1>5. ASSUME Step PROVE DiskInv' /\ OffsetInv'
  BY <1>5, SessionDisk, AddDisk, PatchDisk, CommitDisk DEF Step
<1> QED
  BY <1>3, <1>4, <1>5 DEF Next

\* Pages are apart and on disk in every state.
LEMMA PagesInvariant == Spec => []PInv
<1>1. Init => DiskInv /\ OffsetInv
  <2>1. ASSUME Init PROVE DiskCatalog = EmptyCatalog
    <3>1. disk_len = 3 /\ disk[2] = Footer(1, EmptyCatalog)
          /\ disk[1] = CatalogPart(EmptyCatalog, 0)
      BY <2>1 DEF Init
    <3> QED
      BY <3>1 DEF DiskCatalog, FooterOffset, Footer, CatalogPart
  <2> QED
    BY <2>1, EmptyIn DEF Init, DiskInv, OffsetInv
<1>2. PInv /\ [Next]_vars => DiskInv' /\ OffsetInv'
  BY DiskNext
<1> QED
  BY <1>1, <1>2, PagesAlwaysApart, PTL DEF Spec, PInv

\* Every file the writer knows of is whole on disk, its page headers agreeing
\* with the catalog, but for the one that is being deleted right now: no
\* append, patch, commit or truncation damages another file's pages
\* (archive.cc:197, archive_writer.cc:268-289).
THEOREM FilesStayOnDisk == Spec => []FilesOnDisk
<1>1. PInv => FilesOnDisk
  <2> SUFFICES ASSUME PInv, NEW p \in Entries(wcat), pc = "patch_page" => p # job.path,
                      NEW n \in DOMAIN wcat[p].pages
               PROVE  PageOnDisk(wcat[p], n)
    BY DEF FilesOnDisk
  <2>1. PageIn(disk, wcat[p], n)
    BY DEF PInv, DiskInv, CatalogIn, EntryIn
  <2> QED
    BY <2>1 DEF PageIn, PageOnDisk
<1> QED
  BY <1>1, PagesInvariant, PTL
-----------------------------------------------------------------------------
(* What a step may change on disk.                                         *)

\* A step while the archive is open for changes leaves the cells before the
\* catalog alone, but for the pages of the file that it deletes.
LEMMA StepPatchesOwn ==
  ASSUME PInv, Next, mode = "opened",
         NEW i \in 0 .. catalog_offset - 1, disk'[i] # disk[i]
  PROVE  pc = "patch_page" /\ i \in OwnCells(wcat[job.path])
<1>1. /\ catalog_offset \in Nat /\ disk_len \in Nat /\ append_pos \in Nat
      /\ wcat \in Catalog /\ CatalogSize(wcat) \in Nat \ {0}
  BY CatalogSizeType DEF PInv, IInv, TypeOK
<1>2. CASE WritePage \/ WriteLastPage
  <2>1. pc = "write_page" /\ AppendWrite(PageWrite)
    BY <1>2 DEF WritePage, WriteLastPage
  <2>2. catalog_offset <= append_pos /\ append_pos <= disk_len
    BY <2>1 DEF PInv, IInv, PagesInv
  <2>3. i \in Cells /\ i < append_pos
    BY <1>1, <2>2 DEF Cells
  <2> QED
    BY <2>1, <2>3, PageWritten DEF PInv
<1>3. CASE PatchPage \/ PatchLastPage
  <2> DEFINE old == wcat[job.path]
             ref == old.pages[job.n]
             size == IF job.soft THEN 0 ELSE ref.size
  <2>1. pc = "patch_page" /\ WriteAt(PatchWrite)
    BY <1>3 DEF PatchPage, PatchLastPage
  <2>2. catalog_offset <= disk_len /\ job \in DeleteJob
    BY <2>1 DEF PInv, IInv, PagesInv, TypeOK, JobOK
  <2>3. i \in Cells
    BY <1>1, <2>2 DEF Cells
  <2>4. job.path \in Entries(wcat) /\ job.n \in DOMAIN old.pages
    <3>1. job.path \in Entries(wcat)
      BY <2>1, <2>2 DEF PInv, IInv, LoopInv, DeleteJob, Entries
    <3>2. old \in Entry
      BY <1>1, <3>1 DEF Entries, Catalog
    <3> QED
      BY <2>1, <2>2, <3>1, <3>2 DEF PInv, IInv, LoopInv, DeleteJob, Entry
  <2>5. ref.offset \in Nat /\ ref.size \in Nat
    BY <1>1, <2>4, PageRefsOf, PageRefFields
  <2>6. i \in Span(ref.offset, ref.offset + 1 + size)
    BY <2>1, <2>3, PatchApplied DEF PInv
  <2>7. i \in ref.offset .. ref.offset + ref.size
    BY <2>5, <2>6 DEF Span
  <2> HIDE DEF ref
  <2>8. i \in OwnCells(old)
    BY <2>4, <2>7 DEF OwnCells, ref
  <2> QED
    BY <2>1, <2>8
<1>4. CASE WriteCatalog
  <2>1. catalog_offset <= append_pos /\ append_pos <= disk_len
    BY <1>4 DEF WriteCatalog, PInv, IInv, CommitInv, OffsetInv
  <2>2. i \in Cells /\ i < append_pos
    BY <1>1, <2>1 DEF Cells
  <2> QED
    BY <1>4, <2>2, WriteCatalogInv DEF PInv
<1>5. CASE WriteFooter \/ WriteLastFooter
  <2>1. pc = "write_footer" /\ Transfer(FooterWrite, 1)
    BY <1>5 DEF WriteFooter, WriteLastFooter, AppendWrite, WriteAt, FooterWrite, Write
  <2>2. /\ catalog_offset <= job.offset /\ job.offset \in Nat
        /\ append_pos = job.offset + CatalogSize(wcat) /\ append_pos <= disk_len
    BY <2>1 DEF PInv, IInv, TypeOK, JobOK, FooterJob, CommitJob, CommitInv,
                CatalogWritten, OffsetInv
  <2>3. i \in Cells /\ i < append_pos
    BY <1>1, <2>2 DEF Cells
  <2> QED
    BY <2>1, <2>3, FooterAppended DEF PInv
<1>6. CASE Truncate
  <2>1. /\ catalog_offset <= job.offset /\ job.offset \in Nat
        /\ append_pos = job.offset + CatalogSize(wcat) + 1
    BY <1>6 DEF Truncate, PInv, IInv, TypeOK, JobOK, CommitJob, CommitInv, OffsetInv
  <2>2. i \in 0 .. append_pos - 1
    BY <1>1, <2>1
  <2> QED
    BY <1>6, <2>2 DEF Truncate
<1>7. disk' = disk \/ WritePage \/ WriteLastPage \/ PatchPage \/ PatchLastPage
      \/ WriteCatalog \/ WriteFooter \/ WriteLastFooter \/ Truncate
  BY DEF Next, Call, Step, Create, Open, Close, AddFile, DeleteFile, RenameFile,
         MissingFile, ExtractFile, RecoverFile, Reload, io
<1> QED
  BY <1>2, <1>3, <1>4, <1>5, <1>6, <1>7

\* The bytes before the catalog change in one way only: a delete patches the
\* pages of the file it deletes (archive_writer.cc:268-289).
THEOREM OthersPagesUntouched == Spec => OnlyOwnPagesPatched
<1> DEFINE A == mode = "opened" =>
                  \A i \in 0 .. catalog_offset - 1 :
                    disk'[i] # disk[i] =>
                      pc = "patch_page" /\ i \in OwnCells(wcat[job.path])
<1>1. PInv /\ [Next]_vars => [A]_vars
  <2> SUFFICES ASSUME PInv, Next PROVE A
    OBVIOUS
  <2> QED
    BY StepPatchesOwn
<1> QED
  BY <1>1, PagesInvariant, PTL DEF Spec, OnlyOwnPagesPatched

-----------------------------------------------------------------------------
(* What a call in progress has done to the writer's catalog.               *)

Committing == pc \in {"write_catalog", "write_footer", "truncate", "reload"}

\* The writer's catalog is the reader's after the call in progress; the two
\* are the same if the archive is being closed.
CallEffect ==
  \/ job.call = "close" /\ wcat = rcat
  \/ /\ job.call = "add"
     /\ \E c \in Content :
          View(wcat) = [View(rcat) EXCEPT ![job.path] =
                          [content |-> c, deleted |-> FALSE]]
  \/ /\ job.call = "delete"
     /\ rcat[job.path] # NoEntry
     /\ \E soft \in BOOLEAN :
          View(wcat) = [View(rcat) EXCEPT ![job.path] =
                          IF soft THEN [@ EXCEPT !.deleted = TRUE] ELSE NoEntry]
  \/ /\ job.call = "rename"
     /\ rcat[job.path] # NoEntry
     /\ \E q \in Path :
          View(wcat) = [View(rcat) EXCEPT ![job.path] = NoEntry,
                                          ![q] = View(rcat)[job.path]]

\* Reader and writer agree until a call changes the catalog, and the handle
\* knows the size of the file between calls.
CallInv ==
  mode = "opened" =>
    /\ pc = "idle" => file_size = disk_len
    /\ pc \in {"idle", "write_page", "patch_page"} => wcat = rcat
    /\ pc = "patch_page" => rcat[job.path] # NoEntry
    /\ Committing => CallEffect

RInv == PInv /\ CallInv

\* What a program sees of an entry.
FileOf(e) == IF e = NoEntry THEN NoEntry
             ELSE [content |-> e.content, deleted |-> e.deleted]

\* What a program sees of a catalog that gets or loses an entry.
LEMMA ViewPut ==
  ASSUME NEW cat \in Catalog, NEW p \in Path, NEW e
  PROVE  View([cat EXCEPT ![p] = e]) = [View(cat) EXCEPT ![p] = FileOf(e)]
BY DEF View, FileOf, Catalog

\* Setting the deleted bit of a file.
LEMMA MarkedFile ==
  ASSUME NEW file, NEW c, NEW d, file = [content |-> c, deleted |-> d]
  PROVE  [file EXCEPT !.deleted = TRUE] = [content |-> c, deleted |-> TRUE]
<1>1. file \in [content: {c}, deleted: {d}]
  OBVIOUS
<1>2. [file EXCEPT !.deleted = TRUE] \in [content: {c}, deleted: {TRUE}]
  BY <1>1
<1> DEFINE new == [file EXCEPT !.deleted = TRUE]
<1> HIDE DEF new
<1>3. new \in [content: {c}, deleted: {TRUE}] => new = [content |-> c, deleted |-> TRUE]
  OBVIOUS
<1> QED
  BY <1>2, <1>3 DEF new

\* A program sees a file where the catalog has an entry.
LEMMA ViewAt ==
  ASSUME NEW cat \in Catalog, NEW p \in Path
  PROVE  /\ (View(cat)[p] = NoEntry) <=> (cat[p] = NoEntry)
         /\ cat[p] # NoEntry =>
              View(cat)[p] = [content |-> cat[p].content, deleted |-> cat[p].deleted]
<1>1. CASE cat[p] = NoEntry
  BY <1>1 DEF View
<1>2. CASE cat[p] # NoEntry
  <2>1. cat[p] \in Entry
    BY <1>2 DEF Catalog
  <2>2. View(cat)[p] = [content |-> cat[p].content, deleted |-> cat[p].deleted]
    BY <1>2 DEF View
  <2>3. View(cat)[p] \in FileView
    BY <2>1, <2>2 DEF Entry, FileView
  <2> QED
    BY <1>2, <2>2, <2>3, NoFileAssumption
<1> QED
  BY <1>1, <1>2

\* A deletion of a file as a program sees it.
LEMMA ViewDelete ==
  ASSUME NEW cat \in Catalog, NEW p \in Entries(cat), NEW soft \in BOOLEAN
  PROVE  View([cat EXCEPT ![p] = IF soft THEN [@ EXCEPT !.deleted = TRUE] ELSE NoEntry])
           = [View(cat) EXCEPT ![p] = IF soft THEN [@ EXCEPT !.deleted = TRUE] ELSE NoEntry]
<1>1. p \in Path /\ cat[p] # NoEntry /\ cat[p] \in Entry
  BY DEF Entries, Catalog
<1>2. View(cat)[p] = [content |-> cat[p].content, deleted |-> cat[p].deleted]
  BY <1>1, ViewAt
<1>3. CASE soft
  <2> DEFINE e == [cat[p] EXCEPT !.deleted = TRUE]
  <2>1. e \in Entry /\ e.content = cat[p].content /\ e.deleted = TRUE
    BY <1>1 DEF Entry
  <2>2. e # NoEntry
    BY <2>1, NoEntryAssumption
  <2> HIDE DEF e
  <2>3. View([cat EXCEPT ![p] = e]) = [View(cat) EXCEPT ![p] = FileOf(e)]
    BY <1>1, ViewPut
  <2>4. FileOf(e) = [content |-> cat[p].content, deleted |-> TRUE]
    BY <2>1, <2>2 DEF FileOf
  <2>5. [View(cat)[p] EXCEPT !.deleted = TRUE] =
          [content |-> cat[p].content, deleted |-> TRUE]
    BY <1>2, MarkedFile
  <2> QED
    BY <1>3, <2>3, <2>4, <2>5 DEF e
<1>4. CASE ~soft
  <2>1. View([cat EXCEPT ![p] = NoEntry]) = [View(cat) EXCEPT ![p] = FileOf(NoEntry)]
    BY <1>1, ViewPut
  <2>2. FileOf(NoEntry) = NoEntry
    BY DEF FileOf
  <2> QED
    BY <1>4, <2>1, <2>2
<1> QED
  BY <1>3, <1>4

\* A rename as a program sees it.
LEMMA ViewRename ==
  ASSUME NEW cat \in Catalog, NEW p \in Entries(cat), NEW q \in Path
  PROVE  View([cat EXCEPT ![p] = NoEntry, ![q] = cat[p]]) =
           [View(cat) EXCEPT ![p] = NoEntry, ![q] = View(cat)[p]]
<1>1. p \in Path /\ cat[p] # NoEntry
  BY DEF Entries
<1>2. View(cat)[p] = [content |-> cat[p].content, deleted |-> cat[p].deleted]
  BY <1>1, ViewAt
<1> DEFINE without == [cat EXCEPT ![p] = NoEntry]
           e == cat[p]
<1>3. without \in Catalog
  BY DEF Catalog
<1>4. View(without) = [View(cat) EXCEPT ![p] = FileOf(NoEntry)]
  BY <1>1, ViewPut
<1>5. FileOf(NoEntry) = NoEntry /\ FileOf(e) = View(cat)[p]
  BY <1>1, <1>2 DEF FileOf
<1> HIDE DEF without, e
<1>6. View([without EXCEPT ![q] = e]) = [View(without) EXCEPT ![q] = FileOf(e)]
  BY <1>3, ViewPut
<1> QED
  BY <1>4, <1>5, <1>6 DEF without, e
-----------------------------------------------------------------------------
(* Every step keeps this.                                                  *)

\* The start of a call.
LEMMA StartCall ==
  ASSUME RInv,
         \/ Close
         \/ \E p \in Path :
              \/ \E c \in Content : AddFile(p, c)
              \/ \E soft \in BOOLEAN : DeleteFile(p, soft)
              \/ \E q \in Path : RenameFile(p, q)
  PROVE  CallInv'
<1>1. CASE Close
  <2>1. /\ pc = "idle" /\ pc' = "write_catalog" /\ job' = [call |-> "close"]
        /\ UNCHANGED <<wcat, rcat, mode>>
    BY <1>1 DEF Close, memory
  <2> QED
    BY <2>1 DEF RInv, CallInv, Committing, CallEffect
<1>2. ASSUME NEW p \in Path, NEW c \in Content, AddFile(p, c) PROVE CallInv'
  <2>1. pc = "idle" /\ pc' = "write_page" /\ UNCHANGED <<wcat, rcat, mode>>
    BY <1>2 DEF AddFile, memory
  <2> QED
    BY <2>1 DEF RInv, CallInv, Committing
<1>3. ASSUME NEW p \in Path, NEW soft \in BOOLEAN, DeleteFile(p, soft) PROVE CallInv'
  <2>1. /\ pc = "idle" /\ mode = "opened" /\ rcat[p] # NoEntry
        /\ UNCHANGED <<wcat, rcat, mode>>
    BY <1>3 DEF DeleteFile, memory
  <2>2. wcat = rcat /\ rcat \in Catalog
    BY <2>1 DEF RInv, PInv, IInv, CallInv, TypeOK
  <2>3. CASE /\ soft /\ wcat[p].deleted /\ pc' = "write_catalog"
             /\ job' = [call |-> "delete", path |-> p]
    <3>1. rcat[p] \in Entry /\ rcat[p].deleted = TRUE
      BY <2>1, <2>2, <2>3 DEF Catalog, Entry
    <3>2. View(rcat)[p] = [content |-> rcat[p].content, deleted |-> TRUE]
      BY <2>1, <2>2, <3>1, ViewAt
    <3>3. View(rcat) \in [Path -> {View(rcat)[r] : r \in Path}]
      BY DEF View
    <3>4. [View(rcat)[p] EXCEPT !.deleted = TRUE] = View(rcat)[p]
      BY <3>2, MarkedFile
    <3>5. View(rcat) = [View(rcat) EXCEPT ![p] = [@ EXCEPT !.deleted = TRUE]]
      BY <3>3, <3>4
    <3>6. CallEffect'
      BY <2>1, <2>2, <2>3, <3>5 DEF CallEffect
    <3> QED
      BY <2>1, <2>3, <3>6 DEF CallInv, Committing
  <2>4. CASE /\ pc' = "patch_page"
             /\ job' = [call |-> "delete", path |-> p, soft |-> soft, n |-> 1]
    BY <2>1, <2>2, <2>4 DEF CallInv, Committing
  <2> QED
    BY <1>3, <2>3, <2>4 DEF DeleteFile, CommitAt
<1>4. ASSUME NEW p \in Path, NEW q \in Path, RenameFile(p, q) PROVE CallInv'
  <2>1. /\ pc = "idle" /\ mode = "opened" /\ rcat[p] # NoEntry
        /\ wcat' = [wcat EXCEPT ![p] = NoEntry, ![q] = rcat[p]]
        /\ pc' = "write_catalog" /\ job' = [call |-> "rename", path |-> p]
        /\ UNCHANGED <<rcat, mode>>
    BY <1>4 DEF RenameFile, CommitAt
  <2>2. wcat = rcat /\ rcat \in Catalog
    BY <2>1 DEF RInv, PInv, IInv, CallInv, TypeOK
  <2>3. View(wcat') = [View(rcat) EXCEPT ![p] = NoEntry, ![q] = View(rcat)[p]]
    BY <2>1, <2>2, ViewRename DEF Entries
  <2>4. CallEffect'
    BY <2>1, <2>3 DEF CallEffect
  <2> QED
    BY <2>1, <2>4 DEF CallInv, Committing
<1> QED
  BY <1>1, <1>2, <1>3, <1>4

\* The steps of a call.
LEMMA StepCall ==
  ASSUME RInv, Step
  PROVE  CallInv'
<1>1. CASE WritePage \/ PatchPage
  <2>1. /\ pc \in {"write_page", "patch_page"} /\ pc' = pc
        /\ UNCHANGED <<wcat, rcat, mode>>
    BY <1>1 DEF WritePage, PatchPage, memory
  <2>2. pc = "patch_page" => job'.path = job.path
    BY <1>1, <2>1 DEF WritePage, PatchPage, RInv, PInv, IInv, TypeOK, JobOK, DeleteJob
  <2> QED
    BY <2>1, <2>2 DEF RInv, CallInv, Committing
<1>2. CASE WriteLastPage
  <2> DEFINE e == [content |-> job.content, deleted |-> FALSE, pages |-> PagesWritten]
  <2>1. /\ pc = "write_page" /\ mode' = mode /\ rcat' = rcat
        /\ wcat' = [wcat EXCEPT ![job.path] = e]
        /\ mode = "opened" => /\ pc' = "write_catalog"
                              /\ job' = [call |-> "add", path |-> job.path]
    BY <1>2 DEF WriteLastPage
  <2>2. /\ job.path \in Path /\ job.content \in Content /\ wcat \in Catalog
        /\ mode = "opened" => wcat = rcat
    BY <2>1 DEF RInv, PInv, IInv, TypeOK, JobOK, AddJob, CallInv
  <2>3. e \in Entry
    <3>1. PagesWritten \in Seq(PageRef) /\ Len(PagesWritten) = Len(job.pages) + 1
      BY <1>2, PageAppended DEF WriteLastPage, RInv, PInv
    <3>2. Len(job.pages) \in Nat
      BY <2>1 DEF RInv, PInv, IInv, TypeOK, JobOK, AddJob
    <3> QED
      BY <2>2, <3>1, <3>2 DEF Entry
  <2>4. e # NoEntry /\ e.content = job.content /\ e.deleted = FALSE
    BY <2>3, NoEntryAssumption
  <2> HIDE DEF e
  <2>5. View(wcat') = [View(wcat) EXCEPT ![job.path] =
                         [content |-> job.content, deleted |-> FALSE]]
    <3>1. View(wcat') = [View(wcat) EXCEPT ![job.path] = FileOf(e)]
      BY <2>1, <2>2, ViewPut
    <3>2. FileOf(e) = [content |-> job.content, deleted |-> FALSE]
      BY <2>4 DEF FileOf
    <3> QED
      BY <3>1, <3>2
  <2>6. ASSUME mode = "opened" PROVE CallEffect'
    <3>1. /\ job'.call = "add" /\ job'.path = job.path /\ rcat' = rcat
          /\ View(wcat') = [View(rcat) EXCEPT ![job.path] =
                              [content |-> job.content, deleted |-> FALSE]]
      BY <2>1, <2>2, <2>5, <2>6
    <3>2. \E c \in Content :
            View(wcat') = [View(rcat') EXCEPT ![job'.path] =
                             [content |-> c, deleted |-> FALSE]]
      BY <2>2, <3>1
    <3> QED
      BY <3>1, <3>2 DEF CallEffect
  <2> QED
    BY <2>1, <2>6 DEF CallInv, Committing
<1>3. CASE PatchLastPage
  <2>1. /\ pc = "patch_page" /\ pc' = "write_catalog" /\ UNCHANGED <<mode, rcat>>
        /\ job' = [call |-> "delete", path |-> job.path]
        /\ wcat' = [wcat EXCEPT ![job.path] =
                      IF job.soft THEN [@ EXCEPT !.deleted = TRUE] ELSE NoEntry]
    BY <1>3 DEF PatchLastPage, CommitAt
  <2>2. mode = "opened"
    BY <2>1 DEF RInv, PInv, IInv, ModeInv, TypeOK
  <2>3. /\ job.path \in Path /\ job.soft \in BOOLEAN /\ rcat \in Catalog
        /\ wcat = rcat /\ rcat[job.path] # NoEntry
    BY <2>1, <2>2 DEF RInv, PInv, IInv, TypeOK, JobOK, DeleteJob, CallInv
  <2>4. View(wcat') = [View(rcat) EXCEPT ![job.path] =
                         IF job.soft THEN [@ EXCEPT !.deleted = TRUE] ELSE NoEntry]
    BY <2>1, <2>3, ViewDelete DEF Entries
  <2>5. CallEffect'
    BY <2>1, <2>3, <2>4 DEF CallEffect
  <2> QED
    BY <2>1, <2>5 DEF CallInv, Committing
<1>4. CASE WriteCatalog \/ WriteFooter \/ Truncate
  <2>1. UNCHANGED <<wcat, rcat, mode>> /\ Committing /\ Committing'
        /\ pc' \notin {"idle", "write_page", "patch_page"}
    BY <1>4 DEF WriteCatalog, WriteFooter, Truncate, Committing, memory
  <2>2. /\ job'.call = job.call
        /\ job.call # "close" => job'.path = job.path
    BY <1>4 DEF WriteCatalog, WriteFooter, Truncate
  <2>3. ASSUME CallEffect PROVE CallEffect'
    <3>1. CASE job.call = "close"
      BY <2>1, <2>2, <2>3, <3>1 DEF CallEffect
    <3>2. CASE job.call # "close"
      BY <2>1, <2>2, <2>3, <3>2 DEF CallEffect
    <3> QED
      BY <3>1, <3>2
  <2> QED
    BY <2>1, <2>3 DEF RInv, CallInv
<1>5. CASE Reload
  <2>1. /\ pc = "reload" /\ pc' = "idle" /\ file_size' = disk_len /\ disk_len' = disk_len
        /\ rcat' = DiskCatalog /\ wcat' = wcat /\ mode' = mode
    BY <1>5 DEF Reload
  <2>2. DiskCatalog = wcat
    BY <1>5, ReloadInv DEF RInv, PInv
  <2> QED
    BY <2>1, <2>2 DEF CallInv, Committing
<1>6. CASE WriteLastFooter
  BY <1>6 DEF WriteLastFooter, Release, CallInv
<1> QED
  BY <1>1, <1>2, <1>3, <1>4, <1>5, <1>6 DEF Step

\* Every step.
LEMMA CallNext ==
  ASSUME RInv, [Next]_vars
  PROVE  CallInv'
<1>1. ASSUME UNCHANGED <<io, memory, mode, pc, job>> PROVE CallInv'
  <2>1. CallEffect' = CallEffect /\ Committing' = Committing
    BY <1>1 DEF CallEffect, Committing, memory
  <2> QED
    BY <1>1, <2>1 DEF RInv, CallInv, io, memory
<1>2. ASSUME NEW p \in Path, NEW call \in {"delete", "rename"},
             MissingFile(call, p) \/ ExtractFile(p) \/ RecoverFile(p)
      PROVE  CallInv'
  BY <1>1, <1>2 DEF MissingFile, ExtractFile, RecoverFile
<1>3. CASE UNCHANGED vars
  BY <1>1, <1>3 DEF vars, io, memory
<1>4. CASE Create
  BY <1>4 DEF Create, CallInv
<1>5. CASE Open
  <2>1. /\ pc' = "idle" /\ wcat' = DiskCatalog /\ rcat' = DiskCatalog
        /\ file_size' = disk_len /\ disk_len' = disk_len
    BY <1>5 DEF Open, RInv, PInv, IInv, ModeInv
  <2> QED
    BY <2>1 DEF CallInv, Committing
<1>6. ASSUME Call PROVE CallInv'
  BY <1>2, <1>4, <1>5, <1>6, StartCall DEF Call
<1> QED
  BY <1>3, <1>6, StepCall DEF Next

\* The invariant on which the refinement rests.
LEMMA CallInvariant == Spec => []RInv
<1>1. Init => CallInv
  BY DEF Init, CallInv
<1>2. RInv /\ [Next]_vars => CallInv'
  BY CallNext
<1> QED
  BY <1>1, <1>2, PagesInvariant, PTL DEF Spec, RInv
-----------------------------------------------------------------------------
(* The refinement.                                                         *)

\* The catalog that a program sees, in the state before and after a step.
LEMMA Visible ==
  /\ mode = "created" => VisibleFiles = View(wcat)
  /\ mode = "opened" => VisibleFiles = View(rcat)
  /\ mode = "closed" => VisibleFiles = View(DiskCatalog)
  /\ (mode = "created")' => VisibleFiles' = View(wcat')
  /\ (mode = "opened")' => VisibleFiles' = View(rcat')
  /\ (mode = "closed")' => VisibleFiles' = View(DiskCatalog')
BY DEF VisibleFiles

\* Every file that is listed between calls can be read.
LEMMA ListedReadable ==
  ASSUME RInv, mode = "opened", pc = "idle", NEW p \in Path, rcat[p] # NoEntry
  PROVE  Readable(rcat[p])
<1>1. /\ wcat = rcat /\ rcat \in Catalog /\ PagesBelow(rcat, catalog_offset)
      /\ catalog_offset \in Nat /\ catalog_offset < disk_len /\ disk_len \in Nat
      /\ file_size = disk_len /\ p \in Entries(rcat) /\ CatalogIn(disk, rcat)
  BY IdleOffset DEF RInv, PInv, IInv, IdleInv, DiskInv, TypeOK, CallInv, Entries
<1> SUFFICES ASSUME NEW n \in DOMAIN rcat[p].pages
             PROVE  LET ref == rcat[p].pages[n]
                    IN /\ ref.offset + 1 + ref.size <= file_size
                       /\ \A k \in 1 .. ref.size :
                            disk[ref.offset + k] = Data(rcat[p].content, n, k)
  BY DEF Readable
<1> DEFINE ref == rcat[p].pages[n]
<1>2. ref.offset \in Nat /\ ref.size \in Nat
  BY <1>1, PageRefsOf, PageRefFields
<1>3. ref.offset + 1 + ref.size <= catalog_offset
  BY <1>1 DEF PagesBelow
<1>4. \A k \in 1 .. ref.size : disk[ref.offset + k] = Data(rcat[p].content, n, k)
  BY <1>1 DEF CatalogIn, EntryIn, PageIn
<1> QED
  BY <1>1, <1>2, <1>3, <1>4

\* Reading is answered as the abstract archive answers.
LEMMA ReadRefines ==
  ASSUME RInv, NEW p \in Path, NEW call \in {"delete", "rename"},
         MissingFile(call, p) \/ ExtractFile(p) \/ RecoverFile(p)
  PROVE  Abstract!Next
<1>1. /\ mode = "opened" /\ pc = "idle" /\ UNCHANGED <<io, memory, mode, pc, job>>
  BY DEF MissingFile, ExtractFile, RecoverFile
<1>2. VisibleFiles = View(rcat) /\ VisibleFiles' = VisibleFiles
  BY <1>1, Visible DEF memory
<1>3. rcat \in Catalog /\ wcat = rcat
  BY <1>1 DEF RInv, PInv, IInv, TypeOK, CallInv
<1>4. /\ (VisibleFiles[p] = NoEntry) <=> (rcat[p] = NoEntry)
      /\ rcat[p] # NoEntry => /\ VisibleFiles[p].content = rcat[p].content
                              /\ VisibleFiles[p].deleted = rcat[p].deleted
                              /\ Readable(rcat[p])
  <2>1. rcat[p] # NoEntry => Readable(rcat[p])
    BY <1>1, ListedReadable
  <2>2. /\ (View(rcat)[p] = NoEntry) <=> (rcat[p] = NoEntry)
        /\ rcat[p] # NoEntry =>
             View(rcat)[p] = [content |-> rcat[p].content, deleted |-> rcat[p].deleted]
    BY <1>3, ViewAt
  <2>3. /\ (VisibleFiles[p] = NoEntry) <=> (rcat[p] = NoEntry)
        /\ rcat[p] # NoEntry =>
             VisibleFiles[p] = [content |-> rcat[p].content, deleted |-> rcat[p].deleted]
    BY <1>2, <2>2
  <2> QED
    BY <2>1, <2>3
<1>5. CASE MissingFile(call, p)
  <2>1. reply' = Reply(call, p, "not_found") /\ rcat[p] = NoEntry
    BY <1>3, <1>5 DEF MissingFile
  <2>2. Abstract!NotFound(p)
    BY <1>2, <1>4, <2>1 DEF Abstract!NotFound, Abstract!Reply, Reply
  <2> QED
    BY <2>2 DEF Abstract!Next
<1>6. CASE ExtractFile(p)
  <2>1. CASE rcat[p] # NoEntry /\ ~rcat[p].deleted
    <3>1. reply' = Reply("extract", p, rcat[p].content)
      BY <1>4, <1>6, <2>1 DEF ExtractFile
    <3>2. Abstract!ExtractFile(p)
      BY <1>2, <1>4, <2>1, <3>1
      DEF Abstract!ExtractFile, Abstract!Live, Abstract!Reply, Reply
    <3> QED
      BY <3>2 DEF Abstract!Next
  <2>2. CASE rcat[p] = NoEntry \/ rcat[p].deleted
    <3>1. reply' = Reply("extract", p, "not_found")
      BY <1>6, <2>2 DEF ExtractFile
    <3>2. ~Abstract!Live(p)
      BY <1>4, <2>2 DEF Abstract!Live
    <3>3. Abstract!NotFound(p)
      BY <1>2, <3>1, <3>2 DEF Abstract!NotFound, Abstract!Reply, Reply
    <3> QED
      BY <3>3 DEF Abstract!Next
  <2> QED
    BY <2>1, <2>2
<1>7. CASE RecoverFile(p)
  <2>1. CASE rcat[p] # NoEntry /\ rcat[p].deleted
    <3>1. reply' = Reply("recover", p, rcat[p].content)
      BY <1>4, <1>7, <2>1 DEF RecoverFile
    <3>2. Abstract!RecoverFile(p)
      BY <1>2, <1>4, <2>1, <3>1
      DEF Abstract!RecoverFile, Abstract!SoftDeleted, Abstract!Reply, Reply
    <3> QED
      BY <3>2 DEF Abstract!Next
  <2>2. CASE rcat[p] = NoEntry \/ ~rcat[p].deleted
    <3>1. reply' = Reply("recover", p, "not_found")
      BY <1>7, <2>2 DEF RecoverFile
    <3>2. ~Abstract!SoftDeleted(p)
      BY <1>4, <2>2 DEF Abstract!SoftDeleted
    <3>3. Abstract!NotFound(p)
      BY <1>2, <3>1, <3>2 DEF Abstract!NotFound, Abstract!Reply, Reply
    <3> QED
      BY <3>3 DEF Abstract!Next
  <2> QED
    BY <2>1, <2>2
<1> QED
  BY <1>5, <1>6, <1>7

\* A commit takes effect when the reader reloads the catalog.
LEMMA ReloadRefines ==
  ASSUME RInv, Reload
  PROVE  Abstract!Next
<1>1. /\ pc = "reload" /\ rcat' = DiskCatalog /\ mode' = mode
      /\ reply' = Reply(job.call, job.path, "ok")
  BY DEF Reload
<1>2. DiskCatalog = wcat
  BY ReloadInv DEF RInv, PInv
<1>3. /\ mode = "opened" /\ job \in CommitJob /\ rcat \in Catalog
  BY <1>1 DEF RInv, PInv, IInv, ModeInv, TypeOK, JobOK
<1>4. job.call # "close" /\ job.path \in Path
  BY <1>3 DEF CommitJob
<1>5. VisibleFiles = View(rcat) /\ VisibleFiles' = View(wcat)
  BY <1>1, <1>2, <1>3, Visible
<1>6. CallEffect
  BY <1>1, <1>3 DEF RInv, CallInv, Committing
<1>7. CASE job.call = "add"
  <2>1. \E c \in Content : Abstract!AddFile(job.path, c)
    BY <1>1, <1>5, <1>6, <1>7 DEF CallEffect, Abstract!AddFile, Abstract!Reply, Reply
  <2> QED
    BY <1>4, <2>1 DEF Abstract!Next
<1>8. CASE job.call = "delete"
  <2>1. VisibleFiles[job.path] # NoEntry
    BY <1>3, <1>4, <1>5, <1>6, <1>8, ViewAt DEF CallEffect
  <2>2. \E soft \in BOOLEAN : Abstract!DeleteFile(job.path, soft)
    BY <1>1, <1>5, <1>6, <1>8, <2>1 DEF CallEffect, Abstract!DeleteFile, Abstract!Reply, Reply
  <2> QED
    BY <1>4, <2>2 DEF Abstract!Next
<1>9. CASE job.call = "rename"
  <2>1. VisibleFiles[job.path] # NoEntry
    BY <1>3, <1>4, <1>5, <1>6, <1>9, ViewAt DEF CallEffect
  <2>2. \E q \in Path : Abstract!RenameFile(job.path, q)
    BY <1>1, <1>5, <1>6, <1>9, <2>1 DEF CallEffect, Abstract!RenameFile, Abstract!Reply, Reply
  <2> QED
    BY <1>4, <2>2 DEF Abstract!Next
<1> QED
  BY <1>3, <1>7, <1>8, <1>9 DEF CommitJob

\* While an archive is created, a file is there with its last page.
LEMMA AddRefines ==
  ASSUME RInv, WriteLastPage, mode = "created"
  PROVE  Abstract!Next
<1> DEFINE e == [content |-> job.content, deleted |-> FALSE, pages |-> PagesWritten]
<1>1. /\ pc = "write_page" /\ mode' = mode
      /\ wcat' = [wcat EXCEPT ![job.path] = e]
      /\ reply' = Reply("add", job.path, "ok")
  BY DEF WriteLastPage
<1>2. job.path \in Path /\ job.content \in Content /\ wcat \in Catalog
  BY <1>1 DEF RInv, PInv, IInv, TypeOK, JobOK, AddJob
<1>3. e \in Entry
  <2>1. PagesWritten \in Seq(PageRef) /\ Len(PagesWritten) = Len(job.pages) + 1
    BY PageAppended DEF WriteLastPage, RInv, PInv
  <2>2. Len(job.pages) \in Nat
    BY <1>1 DEF RInv, PInv, IInv, TypeOK, JobOK, AddJob
  <2> QED
    BY <1>2, <2>1, <2>2 DEF Entry
<1>4. e # NoEntry /\ e.content = job.content /\ e.deleted = FALSE
  BY <1>3, NoEntryAssumption
<1> HIDE DEF e
<1>5. View(wcat') = [View(wcat) EXCEPT ![job.path] =
                       [content |-> job.content, deleted |-> FALSE]]
  <2>1. View(wcat') = [View(wcat) EXCEPT ![job.path] = FileOf(e)]
    BY <1>1, <1>2, ViewPut
  <2>2. FileOf(e) = [content |-> job.content, deleted |-> FALSE]
    BY <1>4 DEF FileOf
  <2> QED
    BY <2>1, <2>2
<1>6. VisibleFiles = View(wcat) /\ VisibleFiles' = View(wcat')
  BY <1>1, Visible
<1>7. Abstract!AddFile(job.path, job.content)
  BY <1>1, <1>5, <1>6 DEF Abstract!AddFile, Abstract!Reply, Reply
<1> QED
  BY <1>2, <1>7 DEF Abstract!Next

\* All other steps change nothing that a program sees.
LEMMA StutterRefines ==
  ASSUME RInv,
         \/ Open \/ Close
         \/ \E p \in Path :
              \/ \E c \in Content : AddFile(p, c)
              \/ \E soft \in BOOLEAN : DeleteFile(p, soft)
              \/ \E q \in Path : RenameFile(p, q)
         \/ WritePage \/ (WriteLastPage /\ mode # "created")
         \/ PatchPage \/ PatchLastPage
         \/ WriteCatalog \/ WriteFooter \/ WriteLastFooter \/ Truncate
         \/ UNCHANGED vars
  PROVE  VisibleFiles' = VisibleFiles /\ reply' = reply
<1>1. CASE Open
  <2>1. mode = "closed" /\ mode' = "opened" /\ rcat' = DiskCatalog /\ reply' = reply
    BY <1>1 DEF Open
  <2> QED
    BY <2>1, Visible
<1>2. CASE WriteLastFooter
  <2>1. /\ pc = "write_footer" /\ job.call = "close" /\ mode' = "closed" /\ reply' = reply
    BY <1>2 DEF WriteLastFooter, Release
  <2>2. DiskCatalog' = wcat
    BY <1>2, WriteLastFooterInv DEF RInv, PInv
  <2>3. mode = "opened" => wcat = rcat
    BY <2>1 DEF RInv, CallInv, Committing, CallEffect
  <2>4. mode \in {"created", "opened"}
    BY <2>1 DEF RInv, PInv, IInv, ModeInv, TypeOK
  <2> QED
    BY <2>1, <2>2, <2>3, <2>4, Visible
<1>3. CASE Close \/ WritePage \/ PatchPage \/ WriteCatalog \/ WriteFooter \/ Truncate
  <2>1. /\ UNCHANGED <<wcat, rcat, mode, reply>>
        /\ pc # "idle" \/ mode # "closed"
    BY <1>3 DEF Close, WritePage, PatchPage, WriteCatalog, WriteFooter, Truncate, memory
  <2>2. mode \in {"created", "opened"}
    BY <2>1 DEF RInv, PInv, IInv, ModeInv, TypeOK
  <2> QED
    BY <2>1, <2>2, Visible
<1>4. ASSUME NEW p \in Path, NEW c \in Content, AddFile(p, c)
      PROVE  VisibleFiles' = VisibleFiles /\ reply' = reply
  <2>1. UNCHANGED <<wcat, rcat, mode, reply>> /\ mode \in {"created", "opened"}
    BY <1>4 DEF AddFile, memory
  <2> QED
    BY <2>1, Visible
<1>5. ASSUME \/ \E p \in Path, soft \in BOOLEAN : DeleteFile(p, soft)
             \/ \E p \in Path, q \in Path : RenameFile(p, q)
             \/ WriteLastPage /\ mode # "created"
             \/ PatchLastPage
      PROVE  VisibleFiles' = VisibleFiles /\ reply' = reply
  <2>1. /\ UNCHANGED <<rcat, mode, reply>>
        /\ mode = "opened" \/ pc = "patch_page"
    BY <1>5 DEF DeleteFile, RenameFile, WriteLastPage, PatchLastPage, memory
  <2>2. mode = "opened"
    BY <2>1 DEF RInv, PInv, IInv, ModeInv, TypeOK
  <2> QED
    BY <2>1, <2>2, Visible
<1>6. CASE UNCHANGED vars
  BY <1>6 DEF vars, VisibleFiles, DiskCatalog, FooterOffset
<1> QED
  BY <1>1, <1>2, <1>3, <1>4, <1>5, <1>6

\* A new archive is empty.
LEMMA CreateRefines ==
  ASSUME Create
  PROVE  Abstract!Next
<1>1. mode' = "created" /\ wcat' = EmptyCatalog /\ reply' = NoReply
  BY DEF Create
<1>2. VisibleFiles' = [p \in Path |-> NoEntry]
  BY <1>1, Visible DEF View, EmptyCatalog
<1>3. Abstract!Create
  BY <1>1, <1>2 DEF Abstract!Create, Abstract!NoReply, NoReply
<1> QED
  BY <1>3 DEF Abstract!Next

\* Every step is a step of the abstract archive or changes nothing of it.
LEMMA StepRefines ==
  ASSUME RInv, [Next]_vars
  PROVE  [Abstract!Next]_(Abstract!vars)
<1>1. ASSUME VisibleFiles' = VisibleFiles /\ reply' = reply
      PROVE  [Abstract!Next]_(Abstract!vars)
  BY <1>1 DEF Abstract!vars
<1>2. ASSUME NEW p \in Path, NEW call \in {"delete", "rename"},
             MissingFile(call, p) \/ ExtractFile(p) \/ RecoverFile(p)
      PROVE  Abstract!Next
  BY <1>2, ReadRefines
<1>3. CASE Create \/ Reload \/ (WriteLastPage /\ mode = "created")
  BY <1>3, CreateRefines, ReloadRefines, AddRefines
<1>4. CASE ~(Create \/ Reload \/ (WriteLastPage /\ mode = "created"))
  <2>1. CASE \E p \in Path : \/ \E call \in {"delete", "rename"} : MissingFile(call, p)
                             \/ ExtractFile(p) \/ RecoverFile(p)
    BY <1>2, <2>1
  <2>2. CASE ~(\E p \in Path : \/ \E call \in {"delete", "rename"} : MissingFile(call, p)
                               \/ ExtractFile(p) \/ RecoverFile(p))
    BY <1>1, <1>4, <2>2, StutterRefines DEF Next, Call, Step
  <2> QED
    BY <2>1, <2>2
<1> QED
  BY <1>3, <1>4

\* The file format, the page loops, the commit and the two catalogs together
\* implement the abstract archive: each call takes effect at once, when it
\* returns, and is answered as the interface says (archive.h).
THEOREM ArchiveRefined == Spec => RefinesArchive
<1>1. Init => Abstract!Init
  <2> SUFFICES ASSUME Init PROVE Abstract!Init
    OBVIOUS
  <2>1. disk_len = 3 /\ disk[2] = Footer(1, EmptyCatalog)
        /\ disk[1] = CatalogPart(EmptyCatalog, 0) /\ mode = "closed" /\ reply = NoReply
    BY DEF Init
  <2>2. DiskCatalog = EmptyCatalog
    BY <2>1 DEF DiskCatalog, FooterOffset, Footer, CatalogPart
  <2>3. VisibleFiles = [p \in Path |-> NoEntry]
    BY <2>1, <2>2, Visible DEF View, EmptyCatalog
  <2> QED
    BY <2>1, <2>3 DEF Abstract!Init, Abstract!NoReply, NoReply
<1>2. RInv /\ [Next]_vars => [Abstract!Next]_(Abstract!vars)
  BY StepRefines
<1> QED
  BY <1>1, <1>2, CallInvariant, PTL DEF Spec, RefinesArchive, Abstract!Spec
=============================================================================
