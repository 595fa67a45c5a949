--------------------------- MODULE RewriteArchive ---------------------------
(***************************************************************************)
(* Archives opened without read_write: every change copies the live files  *)
(* to a temporary archive beside the old one, finalises it, renames it     *)
(* over the old one and opens it again (Archive::Rewrite).  Several        *)
(* processes may do so with one path, or create an archive there; they     *)
(* meet in the file system, at POSIX record locks that are tried once.     *)
(*                                                                         *)
(* A file is a sequence of items: the archive header, the pages of one     *)
(* file each, and the catalog with its footer, which are one item because  *)
(* the file is unreadable before, between and without them.  A step makes  *)
(* one change to the file system.  A partial write is not distinguished    *)
(* from none: nothing else reads what a writer has not finished.  All      *)
(* items are of one size, and the reader's page cache is left out: a page  *)
(* is read from the file each time.                                        *)
(***************************************************************************)
EXTENDS Integers, Sequences, FiniteSets

CONSTANTS
  Process,   \* processes with an Archive object on the same path
  Creator,   \* those that may create an archive there
  Path,      \* paths inside the archive, numbered in the order of the keys
  Content,   \* file contents
  None,      \* no entry, no file
  MaxItems,  \* BOUND: items of an archive that is being created
  MaxCalls,  \* BOUND: archives created and rewritten in a behaviour
  MaxFaults  \* BOUND: failures and kills in a behaviour

ASSUME ProcessAssumption == IsFiniteSet(Process) /\ Creator \subseteq Process
ASSUME RewritePathAssumption == Path \subseteq Nat
ASSUME BoundsAssumption == {MaxItems, MaxCalls, MaxFaults} \subseteq Nat
ASSUME NoneAssumption ==
  None \notin Nat \cup Content \cup [content : Content, deleted : BOOLEAN, at : Nat]

VARIABLES
  file,    \* file[i]: the items of the file with inode i
  name,    \* the inodes of the archive and of its temporary file, or None
  proc,    \* proc[p]: the Archive object of p and the call it executes
  calls,   \* archives created and rewritten so far
  faults   \* failures and kills so far

vars == <<file, name, proc, calls, faults>>

\* At most two names, and two handles of each process, refer to a file.
Inode == 1 .. 2 + 2 * Cardinality(Process)
Larger(a, b) == IF a > b THEN a ELSE b

\* The fields of r, and those of s that r does not have.
r ++ s == [x \in DOMAIN r \cup DOMAIN s |-> IF x \in DOMAIN r THEN r[x] ELSE s[x]]
-----------------------------------------------------------------------------
(* Files and catalogs.                                                     *)

Magic == [kind |-> "magic"]
Zero == [kind |-> "zero"]
Data(c) == [kind |-> "data", content |-> c]
End(cat) == [kind |-> "end", catalog |-> cat]

NewEntry(c, at) == [content |-> c, deleted |-> FALSE, at |-> at]
EmptyCatalog == [f \in Path |-> None]
Listed(cat) == {f \in Path : cat[f] # None}
LiveFiles(cat) == {f \in Listed(cat) : ~cat[f].deleted}
Live(cat) == [f \in Path |-> IF f \in LiveFiles(cat) THEN cat[f].content ELSE None]

\* A write of item x at a position, which may be behind the end.
Put(items, at, x) ==
  [i \in 1 .. Larger(at, Len(items)) |->
     IF i = at THEN x ELSE IF i <= Len(items) THEN items[i] ELSE Zero]

\* ArchiveReader::Open accepts a file with a header and a catalog at its end.
Complete(items) ==
  /\ Len(items) >= 2
  /\ items[1] = Magic
  /\ items[Len(items)].kind = "end"
CatalogOf(items) == items[Len(items)].catalog

\* The pages of e are in the file and have the CRC of what was added.
Extractable(items, e) == e.at <= Len(items) /\ items[e.at] = Data(e.content)
-----------------------------------------------------------------------------
(* The state of a process.                                                 *)

NoJob == [call |-> "none"]
Closed == [mode |-> "closed", pc |-> "idle", job |-> NoJob,
           reader |-> None, rcat |-> EmptyCatalog,    \* reader_, its last catalog
           out |-> None, locked |-> FALSE,            \* the handle of the writer
           pos |-> 0, wcat |-> EmptyCatalog, finalised |-> FALSE]

\* Mutant: the lock is not given back.
ReleasedNoLock == [out |-> None, pos |-> 0, wcat |-> EmptyCatalog, finalised |-> FALSE]

Released == [out |-> None, locked |-> FALSE, pos |-> 0,
             wcat |-> EmptyCatalog, finalised |-> FALSE]
Returned == [pc |-> "idle", job |-> NoJob]

At(p, pc) == proc[p].pc = pc
Idle(p, mode) == At(p, "idle") /\ proc[p].mode = mode
Becomes(p, changes) == proc' = [proc EXCEPT ![p] = changes ++ @]

\* A file that a directory or a handle refers to; any other inode is free.
InUse ==
  {name["archive"], name["tmp"]} \cup {proc[p].reader : p \in Process}
    \cup {proc[p].out : p \in Process}
Fresh == CHOOSE i \in Inode \ InUse : \A j \in Inode \ InUse : i <= j
Reclaimed(items) == [i \in Inode |-> IF i \in InUse' THEN items[i] ELSE <<>>]

\* What LockFile of p meets on inode i: a lock is held as long as the handle.
WriteLocked(i, p) == \E o \in Process \ {p} : proc[o].out = i /\ proc[o].locked
\* Mutant: a lock for reading does not count.
WritersLock(i, p) == WriteLocked(i, p)

Locked(i, p) == WriteLocked(i, p) \/ \E o \in Process \ {p} : proc[o].reader = i

Init ==
  /\ file = [i \in Inode |-> IF i = 1 THEN <<Magic, End(EmptyCatalog)>> ELSE <<>>]
  /\ name = [archive |-> 1, tmp |-> None]
  /\ proc = [p \in Process |-> Closed]
  /\ calls = 0 /\ faults = 0
-----------------------------------------------------------------------------
(* The calls of the program.                                               *)

\* Archive::Open: open, lock, map and read the catalog.
CanOpen(p) ==
  LET i == name["archive"]
  IN ~WriteLocked(i, p) /\ Complete(file[i])
Opened == [mode |-> "opened", reader |-> name["archive"],
           rcat |-> CatalogOf(file[name["archive"]])]
Open(p) ==
  /\ Idle(p, "closed")
  /\ CanOpen(p)
  /\ Becomes(p, Opened)
  /\ UNCHANGED <<file, name, calls, faults>>

OpenFails(p) ==
  /\ Idle(p, "closed")
  /\ ~CanOpen(p)
  /\ UNCHANGED vars

\* Archive::Close of an opened archive, with or without a reader.
Close(p) ==
  /\ Idle(p, "opened")
  /\ Becomes(p, Closed)
  /\ UNCHANGED <<name, calls, faults>>
  /\ file' = Reclaimed(file)

Call(p, mode, pc, job) ==
  /\ Idle(p, mode)
  /\ Becomes(p, [pc |-> pc, job |-> job])
  /\ UNCHANGED <<file, name, faults>>
Counted == calls < MaxCalls /\ calls' = calls + 1

\* Creating an archive, adding to it, and closing it.
Create(p) ==
  /\ p \in Creator
  /\ Call(p, "closed", "open_out", [call |-> "create"])
  /\ Counted
AddToNew(p, f, c) ==
  /\ proc[p].pos < MaxItems
  /\ Call(p, "created", "change", [call |-> "add", path |-> f, content |-> c])
  /\ UNCHANGED calls
CloseNew(p) ==
  /\ Call(p, "created", "finalise", [call |-> "close"])
  /\ UNCHANGED calls

\* A call that rewrites the archive starts with all live files left to copy.
Rewrite(p, job) ==
  /\ proc[p].reader # None
  /\ Call(p, "opened", "open_out", [left |-> LiveFiles(proc[p].rcat)] ++ job)
  /\ Counted
AddFile(p, f, c) == Rewrite(p, [call |-> "add", path |-> f, content |-> c])

\* Stat finds soft-deleted files too.
DeleteFile(p, f, soft) ==
  /\ f \in Listed(proc[p].rcat)
  /\ Rewrite(p, [call |-> "delete", path |-> f, soft |-> soft])
RenameFile(p, f, g) ==
  /\ f \in Listed(proc[p].rcat)
  /\ Rewrite(p, [call |-> "rename", path |-> f, to |-> g])

\* A page of the map that lies behind the end of the file kills the process.
CutOff(p, f) == proc[p].rcat[f].at > Len(file[proc[p].reader])
Dies(p) ==
  /\ Becomes(p, Closed)
  /\ UNCHANGED <<name, calls, faults>>
  /\ file' = Reclaimed(file)
ExtractFile(p, f) ==
  /\ Idle(p, "opened")
  /\ proc[p].reader # None
  /\ f \in LiveFiles(proc[p].rcat)
  /\ CutOff(p, f)
  /\ Dies(p)
-----------------------------------------------------------------------------
(* The writer's Init: open with O_TRUNC, then lock, then the header.       *)

OutName(p) == IF proc[p].job.call = "create" THEN "archive" ELSE "tmp"
OpenOut(p) ==
  LET n == OutName(p)
      i == IF name[n] = None THEN Fresh ELSE name[n]
  IN /\ At(p, "open_out")
     /\ file' = [file EXCEPT ![i] = <<>>]
     /\ name' = [name EXCEPT ![n] = i]
     /\ Becomes(p, [pc |-> "lock_out", out |-> i])
     /\ UNCHANGED <<calls, faults>>

LockOut(p) ==
  /\ At(p, "lock_out")
  /\ ~Locked(proc[p].out, p)
  /\ Becomes(p, [pc |-> "header", locked |-> TRUE])
  /\ UNCHANGED <<file, name, calls, faults>>

\* Init returns an error and leaves the truncated file where it is.
LockFails(p) ==
  /\ At(p, "lock_out")
  /\ Locked(proc[p].out, p)
  /\ Becomes(p, Returned ++ Released)
  /\ UNCHANGED <<name, calls, faults>>
  /\ file' = Reclaimed(file)

\* IO().Append of one item.
Appended(p, x) == [file EXCEPT ![proc[p].out] = Put(@, proc[p].pos + 1, x)]

Header(p) ==
  /\ At(p, "header")
  /\ file' = Appended(p, Magic)
  /\ Becomes(p, [pos |-> 1] ++
       IF proc[p].job.call = "create" THEN [mode |-> "created"] ++ Returned
       ELSE [pc |-> "copy"])
  /\ UNCHANGED <<name, calls, faults>>
-----------------------------------------------------------------------------
(* The transform: the live files in key order, then the change itself.     *)

\* f is the next file of the loop.
Copying(p, f) ==
  /\ At(p, "copy")
  /\ f \in proc[p].job.left
  /\ \A g \in proc[p].job.left : f <= g

\* Mutant: the file to delete is copied like any other.
OmittedNever(job, f) == FALSE

Omitted(job, f) == job.call = "delete" /\ ~job.soft /\ f = job.path
Emitted(job, f) == IF job.call = "rename" /\ f = job.path THEN job.to ELSE f
Taken(p, f) == [job |-> [proc[p].job EXCEPT !.left = @ \ {f}]]

\* ArchiveWriter::AddFile: the page, then the entry.
WriterAdds(p, f, c, changes) ==
  LET at == proc[p].pos + 1
  IN /\ file' = Appended(p, Data(c))
     /\ Becomes(p, [pos |-> at,
                    wcat |-> [proc[p].wcat EXCEPT ![f] = NewEntry(c, at)]] ++ changes)

\* Mutant: the loop goes on with the same file.
OmitAgain(p, f) ==
  /\ Copying(p, f)
  /\ Omitted(proc[p].job, f)
  /\ UNCHANGED vars

\* A hard delete leaves its file out.
Omit(p, f) ==
  /\ Copying(p, f)
  /\ Omitted(proc[p].job, f)
  /\ Becomes(p, Taken(p, f))
  /\ UNCHANGED <<file, name, calls, faults>>

\* ExtractFile of the reader, then AddFile of the writer.
Extracts(p, f) == Extractable(file[proc[p].reader], proc[p].rcat[f])
CopyFile(p, f) ==
  /\ Copying(p, f)
  /\ ~Omitted(proc[p].job, f)
  /\ Extracts(p, f)
  /\ WriterAdds(p, Emitted(proc[p].job, f), proc[p].rcat[f].content, Taken(p, f))
  /\ UNCHANGED <<name, calls, faults>>

\* The extraction fails or kills the process, because the file was cut off.
CopyFails(p, f) ==
  /\ Copying(p, f)
  /\ ~Omitted(proc[p].job, f)
  /\ ~Extracts(p, f)
  /\ Becomes(p, [pc |-> "remove_tmp"])
  /\ UNCHANGED <<file, name, calls, faults>>
CopyDies(p, f) ==
  /\ Copying(p, f)
  /\ ~Omitted(proc[p].job, f)
  /\ CutOff(p, f)
  /\ Dies(p)

\* The loop is over, or there is none: the archive is being created.
AtChange(p) == At(p, "change") \/ (At(p, "copy") /\ proc[p].job.left = {})

\* Mutant: the rename comes before Finalise.
ChangedAndDone(p) == IF proc[p].mode = "created" THEN Returned ELSE [pc |-> "drop_reader"]

Changed(p) == IF proc[p].mode = "created" THEN Returned ELSE [pc |-> "finalise"]

AddChange(p) ==
  /\ AtChange(p)
  /\ proc[p].job.call = "add"
  /\ WriterAdds(p, proc[p].job.path, proc[p].job.content, Changed(p))
  /\ UNCHANGED <<name, calls, faults>>

\* ArchiveWriter::DeleteFile patches the flag of the page that was copied.
SoftDelete(p) == AtChange(p) /\ proc[p].job.call = "delete" /\ proc[p].job.soft
SoftDeleteChange(p) ==
  LET f == proc[p].job.path
      at == proc[p].wcat[f].at
  IN /\ SoftDelete(p)
     /\ f \in Listed(proc[p].wcat)
     /\ file' = [file EXCEPT ![proc[p].out] = Put(@, at, Data(proc[p].wcat[f].content))]
     /\ Becomes(p, [wcat |-> [proc[p].wcat EXCEPT ![f].deleted = TRUE]] ++ Changed(p))
     /\ UNCHANGED <<name, calls, faults>>
\* A file that was deleted before has not been copied: kFileNotFound.
SoftDeleteFails(p) ==
  /\ SoftDelete(p)
  /\ proc[p].job.path \notin Listed(proc[p].wcat)
  /\ Becomes(p, [pc |-> "remove_tmp"])
  /\ UNCHANGED <<file, name, calls, faults>>

\* A hard delete and a rename add nothing to the loop.
NoChange(p) ==
  /\ AtChange(p)
  /\ proc[p].job.call = "rename" \/ (proc[p].job.call = "delete" /\ ~proc[p].job.soft)
  /\ Becomes(p, Changed(p))
  /\ UNCHANGED <<file, name, calls, faults>>
-----------------------------------------------------------------------------
(* The end of a rewrite, and the cleanup of one that failed.               *)

\* Finalise: the catalog, then the handle and its lock go.
Finalise(p) ==
  /\ At(p, "finalise")
  /\ Becomes(p, IF proc[p].mode = "created" THEN Closed
                ELSE [pc |-> "drop_reader"] ++ Released)
  /\ UNCHANGED <<name, calls, faults>>
  /\ file' = Reclaimed(Appended(p, End(proc[p].wcat)))

DropReader(p) ==
  /\ At(p, "drop_reader")
  /\ Becomes(p, [pc |-> "rename", reader |-> None])
  /\ UNCHANGED <<name, calls, faults>>
  /\ file' = Reclaimed(file)

Rename(p) ==
  /\ At(p, "rename")
  /\ name["tmp"] # None
  /\ name' = [archive |-> name["tmp"], tmp |-> None]
  /\ Becomes(p, [pc |-> "reopen"])
  /\ UNCHANGED <<calls, faults>>
  /\ file' = Reclaimed(file)

\* The call returns an error; the archive stays opened, without a reader.
RenameFails(p) ==
  /\ At(p, "rename")
  /\ name["tmp"] = None
  /\ Becomes(p, Returned ++ [rcat |-> EmptyCatalog])
  /\ UNCHANGED <<file, name, calls, faults>>

Reopen(p) ==
  /\ At(p, "reopen")
  /\ CanOpen(p)
  /\ Becomes(p, Opened ++ Returned)
  /\ UNCHANGED <<file, name, calls, faults>>
ReopenFails(p) ==
  /\ At(p, "reopen")
  /\ ~CanOpen(p)
  /\ Becomes(p, Closed)
  /\ UNCHANGED <<file, name, calls, faults>>

\* Mutant: the temporary file stays.
RemoveNothing(p) ==
  /\ At(p, "remove_tmp")
  /\ Becomes(p, [pc |-> "destroy"])
  /\ UNCHANGED <<file, name, calls, faults>>

RemoveTmp(p) ==
  /\ At(p, "remove_tmp")
  /\ name' = [name EXCEPT !["tmp"] = None]
  /\ Becomes(p, [pc |-> "destroy"])
  /\ UNCHANGED <<calls, faults>>
  /\ file' = Reclaimed(file)

\* The destructor of the writer, which writes the catalog unless Finalise did.
Destroy(p) ==
  /\ At(p, "destroy")
  /\ Becomes(p, Returned ++ Released)
  /\ UNCHANGED <<name, calls, faults>>
  /\ file' = Reclaimed(IF proc[p].finalised THEN file ELSE Appended(p, End(proc[p].wcat)))
-----------------------------------------------------------------------------
(* Failures of the file system, and kills.                                 *)

\* The write or the sync of the step that p is about to take fails.
HeaderFails(p) ==
  /\ At(p, "header")
  /\ Becomes(p, Returned ++ Released)
  /\ UNCHANGED name
PageFails(p) ==
  /\ \/ \E f \in Path : Copying(p, f) /\ ~Omitted(proc[p].job, f)
     \/ AtChange(p) /\ proc[p].job.call = "add"
     \/ SoftDelete(p)
  /\ Becomes(p, IF proc[p].mode = "created" THEN Returned ELSE [pc |-> "remove_tmp"])
  /\ UNCHANGED name
FinaliseFails(p) ==
  /\ At(p, "finalise")
  /\ Becomes(p, IF proc[p].mode = "created" THEN Closed
                ELSE [pc |-> "remove_tmp", finalised |-> TRUE])
  /\ UNCHANGED name

RenameBreaks(p) ==
  /\ At(p, "rename")
  /\ Becomes(p, Returned ++ [rcat |-> EmptyCatalog])
  /\ UNCHANGED name
ReopenBreaks(p) ==
  /\ At(p, "reopen")
  /\ Becomes(p, Closed)
  /\ UNCHANGED name

\* The kernel closes the handles of a killed process.
Kill(p) ==
  /\ ~At(p, "idle") \/ proc[p].mode = "created"
  /\ Becomes(p, Closed)
  /\ UNCHANGED name

Fails(p) ==
  /\ faults < MaxFaults
  /\ faults' = faults + 1
  /\ \/ HeaderFails(p) \/ PageFails(p) \/ FinaliseFails(p)
     \/ RenameBreaks(p) \/ ReopenBreaks(p) \/ Kill(p)
  /\ file' = Reclaimed(file)
  /\ UNCHANGED calls
-----------------------------------------------------------------------------
Calls(p) ==
  \/ Open(p) \/ OpenFails(p) \/ Close(p) \/ Create(p) \/ CloseNew(p)
  \/ \E f \in Path :
       \/ ExtractFile(p, f)
       \/ \E c \in Content : AddToNew(p, f, c) \/ AddFile(p, f, c)
       \/ \E soft \in BOOLEAN : DeleteFile(p, f, soft)
       \/ \E g \in Path : RenameFile(p, f, g)

\* The steps of a call that is being executed.
Step(p) ==
  \/ OpenOut(p) \/ LockOut(p) \/ LockFails(p) \/ Header(p)
  \/ \E f \in Path : Omit(p, f) \/ CopyFile(p, f) \/ CopyFails(p, f) \/ CopyDies(p, f)
  \/ AddChange(p) \/ SoftDeleteChange(p) \/ SoftDeleteFails(p) \/ NoChange(p)
  \/ Finalise(p) \/ DropReader(p) \/ Rename(p) \/ RenameFails(p)
  \/ Reopen(p) \/ ReopenFails(p) \/ RemoveTmp(p) \/ Destroy(p)

Next == \E p \in Process : Calls(p) \/ Step(p) \/ Fails(p)

\* A call never waits: its thread is scheduled until it returns.
Spec == Init /\ [][Next]_vars /\ \A p \in Process : WF_vars(Step(p))
-----------------------------------------------------------------------------
(* Properties.                                                             *)

\* A handle that is locked is open, a reader has a file, and a call that
\* waits for the program holds nothing but an archive that is being created.
TypeOK ==
  /\ DOMAIN file = Inode
  /\ name["archive"] \in Inode
  /\ name["tmp"] \in Inode \cup {None}
  /\ calls \in 0 .. MaxCalls /\ faults \in 0 .. MaxFaults
  /\ \A p \in Process :
       /\ proc[p].mode \in {"closed", "opened", "created"}
       /\ proc[p].reader \in Inode \cup {None}
       /\ proc[p].out \in Inode \cup {None}
       /\ proc[p].locked => proc[p].out # None
       /\ (proc[p].out # None /\ At(p, "idle")) => proc[p].mode = "created"
       /\ proc[p].reader # None => proc[p].mode = "opened"
       /\ At(p, "rename") => proc[p].reader = None /\ proc[p].out = None

\* Under its path there is always a complete archive, every file of which can
\* be read, the deleted ones that are still listed included.
ArchiveComplete ==
  LET items == file[name["archive"]]
  IN /\ Complete(items)
     /\ \A f \in Listed(CatalogOf(items)) : Extractable(items, CatalogOf(items)[f])

\* What a call makes of the live files it has read.  When a file is renamed to
\* the path of another one, the one whose old path is the later key is left.
Outcome(job, old) ==
  LET left == {old[job.path], old[job.to]} \ {None}
      moved == IF job.path < job.to THEN old[job.to] ELSE old[job.path]
      gone == [old EXCEPT ![job.path] = None]
  IN CASE job.call = "add" -> [old EXCEPT ![job.path] = job.content]
       [] job.call = "delete" -> gone
       [] OTHER -> [gone EXCEPT ![job.to] =
                      IF left = {} THEN None
                      ELSE IF Cardinality(left) = 1 THEN CHOOSE c \in left : TRUE
                      ELSE moved]
Expected(p) == Outcome(proc[p].job, Live(proc[p].rcat))

\* Of one process: whatever fails, and wherever it is killed, the files under
\* the path are those it has read, or, after the rename, what its call makes
\* of them; a file it has deleted softly can still be recovered then.
OldOrNew ==
  LET now == CatalogOf(file[name["archive"]])
  IN \A p \in Process :
       (proc[p].reader # None \/ At(p, "rename") \/ At(p, "reopen")) =>
         IF At(p, "reopen")
         THEN /\ Live(now) = Expected(p)
              /\ (proc[p].job.call = "delete" /\ proc[p].job.soft) =>
                   proc[p].job.path \in Listed(now)
         ELSE Live(now) = Live(proc[p].rcat)

\* A rewrite that nothing interrupts leaves no temporary file behind, not even
\* when its transform fails (archive.cc:461-467).  One whose lock is refused
\* does (archive.cc:458); no lock is while one process runs.
TmpRemoved ==
  (faults = 0 /\ \A p \in Process : At(p, "idle")) => name["tmp"] = None

\* Two processes never write the same file at a time, and none writes a file
\* that another one has open for reading.
WriterExcludesReaders ==
  \A p, o \in Process :
    (p # o /\ proc[p].locked) =>
      /\ proc[o].reader # proc[p].out
      /\ ~(proc[o].locked /\ proc[o].out = proc[p].out)

\* The bytes that a reader has mapped do not change as long as it is open, but
\* for the truncation with which Create opens the file before it asks for the
\* lock: a rewrite never harms another process's open archive.
OpenArchiveUnmodified ==
  [][\A p \in Process :
       (proc[p].reader # None /\ proc'[p].reader = proc[p].reader) =>
         \/ file'[proc[p].reader] = file[proc[p].reader]
         \/ /\ file'[proc[p].reader] = <<>>
            /\ \E o \in Creator : At(o, "open_out") /\ proc[o].job.call = "create"]_vars

\* Every call returns, or kills its process.
CallsReturn == \A p \in Process : ~At(p, "idle") ~> At(p, "idle")

\* A file that was deleted softly stays recoverable when a file is added or
\* deleted under another path.
SoftDeletedKept ==
  \A p \in Process : At(p, "reopen") =>
    \A f \in Listed(proc[p].rcat) \ LiveFiles(proc[p].rcat) :
      (f # proc[p].job.path /\ proc[p].job.call # "rename") =>
        f \in Listed(CatalogOf(file[name["archive"]]))
=============================================================================
