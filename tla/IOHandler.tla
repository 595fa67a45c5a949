----------------------------- MODULE IOHandler -----------------------------
(***************************************************************************)
(* Processes opening one file through IOHandler objects (iohandler.cc, the *)
(* POSIX branches).  A constructor is three steps, open, lock and map, and *)
(* other processes may run between them.  The lock is fcntl's: it belongs  *)
(* to the process, a second lock of the process replaces the first, and    *)
(* closing any of its descriptors of the file gives it up.  A constructor  *)
(* that throws runs no destructor: its descriptor stays open, and what it  *)
(* had locked stays locked.                                                *)
(***************************************************************************)
EXTENDS Integers, FiniteSets, SequencesExt

CONSTANTS
    Handles,        \* places for IOHandler objects
    Owner,          \* the process each of them belongs to
    Datas,          \* buffers the callers write, sequences of bytes above 0
    MaxSize,        \* bound: size of the file
    MaxOpens,       \* bound: handles opened in all
    MaxWrites,      \* bound: writing calls in all
    MaxViews        \* bound: spans of one handle at a time

ASSUME IOAssumption ==
    /\ Owner \in [Handles -> Range(Owner)]
    /\ {MaxSize, MaxOpens, MaxWrites, MaxViews} \subseteq Nat
ASSUME DataAssumption == Datas \subseteq Seq(Nat)

VARIABLES
    file,       \* bytes of the file
    io,         \* the IOHandler objects
    locks,      \* fcntl lock of each process on the file
    views,      \* spans ReadAt returned since the last Remap
    log,        \* ghost: what each writing handle may expect before append_pos
    emptied,    \* ghost: handles whose file was emptied by an open(2) of another one
    stale,      \* ghost: handles whose file changed between their fstat and their lock
    doubled,    \* ghost: processes that had two handles at once
    opens,      \* handles opened so far
    writes      \* writing calls so far

vars == <<file, io, locks, views, log, emptied, stale, doubled, opens, writes>>
disturbed == <<emptied, stale, doubled>>

Procs == Range(Owner)
Modes == {"ReadOnly", "WriteOnly", "ReadWrite"}
Writes(mode) == mode # "ReadOnly"

\* pc: closed, opened (OpenFile done), locked (LockFile done), ready.
\* unmapped: the last Remap took the map away and could not make a new one.
Closed == [pc |-> "closed", mode |-> "ReadOnly", size |-> 0, append |-> 0,
           map |-> 0, unmapped |-> FALSE, buf |-> <<>>]

Init ==
    /\ file = <<>>
    /\ io = [h \in Handles |-> Closed]
    /\ locks = [p \in Procs |-> "none"]
    /\ views = [h \in Handles |-> {}]
    /\ log = [h \in Handles |-> <<>>]
    /\ emptied = {} /\ stale = {} /\ doubled = {}
    /\ opens = 0
    /\ writes = 0

Becomes(h, v) == io' = [io EXCEPT ![h] = v]
Ready(h)      == io[h].pc = "ready"
Writer(h)     == Ready(h) /\ Writes(io[h].mode)

\* Handles that are being constructed: they know the file's size and have no
\* lock yet.
Unlocked(h) == {g \in Handles \ {h} : io[g].pc = "opened"}

-----------------------------------------------------------------------------
(* The constructor.                                                         *)

\* open(2), and fstat for the size; WriteOnly creates or empties the file,
\* whoever has it open.
OpenFile(h, mode) ==
    /\ io[h].pc = "closed" /\ opens < MaxOpens
    /\ LET trunc == mode = "WriteOnly"
           size  == IF trunc THEN 0 ELSE Len(file)
       IN /\ file' = IF trunc THEN <<>> ELSE file
          /\ Becomes(h, [Closed EXCEPT !.pc = "opened", !.mode = mode,
                                       !.size = size, !.append = size])
          /\ log' = [log EXCEPT ![h] = file']
          /\ emptied' = emptied \union
               (IF trunc THEN {g \in Handles \ {h} : io[g].pc # "closed"} ELSE {})
    /\ doubled' = IF \E g \in Handles \ {h} : Owner[g] = Owner[h] /\ io[g].pc # "closed"
                  THEN doubled \union {Owner[h]} ELSE doubled
    /\ opens' = opens + 1
    /\ UNCHANGED <<locks, views, stale, writes>>

\* The ghosts of a handle that is gone.
Forget(h, gone) ==
    IF gone THEN /\ log' = [log EXCEPT ![h] = <<>>]
                 /\ emptied' = emptied \ {h} /\ stale' = stale \ {h}
            ELSE UNCHANGED <<log, emptied, stale>>

\* Mutant: every lock is for reading.
ReadLock(mode) == "read"
LockType(mode) == IF Writes(mode) THEN "write" ELSE "read"
Compatible(p, type) ==
    \A q \in Procs \ {p} : locks[q] = "none" \/ (type = "read" /\ locks[q] = "read")

\* fcntl(F_SETLK): the process's lock is of the new type afterwards.
LockFile(h) ==
    LET p == Owner[h]  type == LockType(io[h].mode) IN
    /\ io[h].pc = "opened"
    /\ IF Compatible(p, type)
       THEN /\ locks' = [locks EXCEPT ![p] = type]
            /\ Becomes(h, [io[h] EXCEPT !.pc = IF Writes(io[h].mode) THEN "ready"
                                                                     ELSE "locked"])
       ELSE Becomes(h, Closed) /\ UNCHANGED locks
    /\ Forget(h, io'[h].pc = "closed")
    /\ UNCHANGED <<file, views, doubled, opens, writes>>

\* mmap of a file that is not empty; it may fail.
MapFile(h) ==
    /\ io[h].pc = "locked"
    /\ \/ Becomes(h, [io[h] EXCEPT !.pc = "ready", !.map = io[h].size])
       \/ io[h].size > 0 /\ Becomes(h, Closed)
    /\ Forget(h, io'[h].pc = "closed")
    /\ UNCHANGED <<file, locks, views, doubled, opens, writes>>

\* Unmap, unlock, close; the spans end here.  Closing any descriptor of the
\* file would give up the process's lock, too.
UnmapFile(x)  == [x EXCEPT !.map = 0]
UnlockFile(p) == [locks EXCEPT ![p] = "none"]
CloseFile(x)  == [Closed EXCEPT !.map = x.map]
Destroy(h) ==
    /\ Ready(h)
    /\ locks' = UnlockFile(Owner[h])
    /\ Becomes(h, CloseFile(UnmapFile(io[h])))
    /\ views' = [views EXCEPT ![h] = {}]
    /\ Forget(h, TRUE)
    /\ UNCHANGED <<file, doubled, opens, writes>>

\* Move construction, and move assignment, which first closes what the
\* target had; the source is left without a file.  Spans of the map go with
\* it; read_buf_ stays with the source, where nobody looks any more.
Moved(set, h, g) == (set \ {g, h}) \union (IF h \in set THEN {g} ELSE {})
Move(h, g) ==
    /\ h # g /\ Owner[h] = Owner[g]
    /\ Ready(h) /\ (Ready(g) \/ io[g].pc = "closed")
    /\ locks' = IF Ready(g) THEN UnlockFile(Owner[g]) ELSE locks
    /\ io' = [io EXCEPT ![g] = io[h], ![h] = Closed]
    /\ log' = [log EXCEPT ![g] = log[h], ![h] = <<>>]
    /\ views' = [views EXCEPT ![g] = IF io[h].mode = "ReadOnly" THEN views[h] ELSE {},
                              ![h] = {}]
    /\ emptied' = Moved(emptied, h, g) /\ stale' = Moved(stale, h, g)
    /\ UNCHANGED <<file, doubled, opens, writes>>

-----------------------------------------------------------------------------
(* Reading.                                                                 *)

\* As many of the bytes from off on as there are.
Smaller(a, b) == IF a < b THEN a ELSE b
At(bytes, off, len) == SubSeq(bytes, off + 1, Smaller(off + len, Len(bytes)))

\* What a span shows when it is used: the mapped file, or the scratch buffer.
Shown(h, v) == IF io[h].mode = "ReadOnly" THEN At(file, v.off, v.len)
                                          ELSE At(io[h].buf, 0, v.len)

InRange(h, off, len) == off + len <= io[h].size

\* A span of the map, or of the scratch buffer filled by pread, which fails
\* at the end of the file; a span behind the map is undefined behaviour and
\* no step.  The spans handed out before are not called back.
ReadAt(h, off, len) ==
    /\ Ready(h) /\ io[h].mode # "WriteOnly"
    /\ InRange(h, off, len)
    /\ off + len <= Len(file)
    /\ IF io[h].mode = "ReadOnly" THEN off + len <= io[h].map /\ UNCHANGED io
       ELSE Becomes(h, [io[h] EXCEPT !.buf = At(file, off, len)])
    /\ Cardinality(views[h]) < MaxViews
    /\ views' = [views EXCEPT ![h] = @ \union {[off |-> off, len |-> len,
                                                bytes |-> At(file, off, len)]}]
    /\ UNCHANGED <<file, locks, log, disturbed, opens, writes>>

\* Remap: a writing handle asks for the size; a reading one maps anew, and
\* has a size and no map when mmap fails.
Remap(h) ==
    /\ Ready(h)
    /\ views' = [views EXCEPT ![h] = {}]
    /\ \/ io[h].mode = "WriteOnly" /\ UNCHANGED <<io, emptied, stale>>
       \/ /\ io[h].mode = "ReadWrite"
          /\ Becomes(h, [io[h] EXCEPT !.size = Len(file)])
          /\ UNCHANGED <<emptied, stale>>
       \/ /\ io[h].mode = "ReadOnly"
          /\ \E failed \in BOOLEAN :
               /\ failed => file # <<>>
               /\ Becomes(h, [io[h] EXCEPT !.size = Len(file), !.unmapped = failed,
                                           !.map = IF failed THEN 0 ELSE Len(file)])
          /\ emptied' = emptied \ {h} /\ stale' = stale \ {h}
    /\ UNCHANGED <<file, locks, log, doubled, opens, writes>>

-----------------------------------------------------------------------------
(* Writing.                                                                 *)

Larger(a, b) == IF a > b THEN a ELSE b

\* One more writing call.
MayWrite(h) == Writer(h) /\ writes < MaxWrites /\ writes' = writes + 1

\* bytes with data at off, as pwrite leaves them; a hole before it reads as
\* zeros.
Written(bytes, off, data) ==
    [i \in 1..Larger(Len(bytes), off + Len(data)) |->
       IF i > off /\ i <= off + Len(data) THEN data[i - off]
       ELSE IF i <= Len(bytes) THEN bytes[i] ELSE 0]

\* All the bytes, or, with an error, those before the call that failed.
WriteAt(h, off, data) ==
    /\ MayWrite(h)
    /\ off + Len(data) <= MaxSize
    /\ \E n \in 0..Len(data) :
         LET done == SubSeq(data, 1, n) IN
         /\ file' = Written(file, off, done)
         /\ log' = [log EXCEPT ![h] = At(Written(@, off, done), 0, io[h].append)]
         /\ IF n = Len(data)
            THEN Becomes(h, [io[h] EXCEPT !.size = Larger(@, off + Len(data))])
            ELSE UNCHANGED io
    /\ stale' = stale \union Unlocked(h)
    /\ UNCHANGED <<locks, views, emptied, doubled, opens>>

\* Mutant: the cursor follows what was written before an error.
AppendPart(h, data) ==
    LET off == io[h].append IN
    /\ MayWrite(h)
    /\ off + Len(data) <= MaxSize
    /\ \E n \in 0..Len(data) :
         /\ file' = Written(file, off, SubSeq(data, 1, n))
         /\ Becomes(h, [io[h] EXCEPT !.size = Larger(@, off + n), !.append = off + n])
         /\ log' = IF n = Len(data) THEN [log EXCEPT ![h] = @ \o data] ELSE log
    /\ stale' = stale \union Unlocked(h)
    /\ UNCHANGED <<locks, views, emptied, doubled, opens>>

\* The cursor moves only when all was written.
Append_(h, data) ==
    LET off == io[h].append IN
    /\ MayWrite(h)
    /\ off + Len(data) <= MaxSize
    /\ \E n \in 0..Len(data) :
         /\ file' = Written(file, off, SubSeq(data, 1, n))
         /\ IF n = Len(data)
            THEN /\ Becomes(h, [io[h] EXCEPT !.size = Larger(@, off + n), !.append = off + n])
                 /\ log' = [log EXCEPT ![h] = @ \o data]
            ELSE UNCHANGED <<io, log>>
    /\ stale' = stale \union Unlocked(h)
    /\ UNCHANGED <<locks, views, emptied, doubled, opens>>

\* Back to an earlier position: the callers only ever go back.
SetAppendPosition(h, pos) ==
    /\ MayWrite(h) /\ pos <= io[h].append
    /\ Becomes(h, [io[h] EXCEPT !.append = pos])
    /\ log' = [log EXCEPT ![h] = At(@, 0, pos)]
    /\ UNCHANGED <<file, locks, views, disturbed, opens>>

\* Mutant: the tracked size stays as it was.
TruncateUntracked(h, size) ==
    LET append == IF io[h].append > size THEN size ELSE io[h].append IN
    /\ MayWrite(h) /\ size <= MaxSize
    /\ file' = [i \in 1..size |-> IF i <= Len(file) THEN file[i] ELSE 0]
    /\ Becomes(h, [io[h] EXCEPT !.append = append])
    /\ log' = [log EXCEPT ![h] = At(@, 0, append)]
    /\ stale' = stale \union Unlocked(h)
    /\ UNCHANGED <<locks, views, emptied, doubled, opens>>

\* ftruncate, which may also lengthen the file; without effect when it fails.
Truncate(h, size) ==
    LET append == IF io[h].append > size THEN size ELSE io[h].append IN
    /\ MayWrite(h) /\ size <= MaxSize
    /\ file' = [i \in 1..size |-> IF i <= Len(file) THEN file[i] ELSE 0]
    /\ Becomes(h, [io[h] EXCEPT !.size = size, !.append = append])
    /\ log' = [log EXCEPT ![h] = At(@, 0, append)]
    /\ stale' = stale \union Unlocked(h)
    /\ UNCHANGED <<locks, views, emptied, doubled, opens>>

-----------------------------------------------------------------------------
Next ==
    \/ \E h \in Handles, mode \in Modes : OpenFile(h, mode)
    \/ \E h \in Handles : LockFile(h)
    \/ \E h \in Handles : MapFile(h)
    \/ \E h \in Handles : Destroy(h)
    \/ \E h, g \in Handles : Move(h, g)
    \/ \E h \in Handles, off \in 0..MaxSize, len \in 0..MaxSize : ReadAt(h, off, len)
    \/ \E h \in Handles : Remap(h)
    \/ \E h \in Handles, off \in 0..MaxSize, data \in Datas : WriteAt(h, off, data)
    \/ \E h \in Handles, data \in Datas : Append_(h, data)
    \/ \E h \in Handles, pos \in 0..MaxSize : SetAppendPosition(h, pos)
    \/ \E h \in Handles, size \in 0..MaxSize : Truncate(h, size)

Spec == Init /\ [][Next]_vars

-----------------------------------------------------------------------------
(* Properties.                                                              *)

\* Nobody has worked on the file beside h: no other handle emptied it while
\* opening it or changed it while h was waiting for its lock, and no process
\* had two handles, of which one takes the other's lock away.  What is left
\* without these provisos is in the properties at the end.
Undisturbed(h) == h \notin emptied \union stale /\ doubled = {}

\* Two processes never have the file open at the same time when one of them
\* writes, as long as neither has had two handles at once: the second one
\* replaces the lock of the first, and its end drops it (LockFile, CloseFile).
LockExclusion ==
    \A h, g \in Handles :
      Ready(h) /\ Writer(g) /\ Owner[h] # Owner[g] =>
        Owner[h] \in doubled \/ Owner[g] \in doubled

\* What ReadAt lets through by its own file size is there to be read: in the
\* file, and in the map of a reading handle, unless its own Remap lost the
\* map (ReadAt's range check, the size taken in OpenFile before the lock).
RangeCheckHolds ==
    \A h \in Handles : Ready(h) /\ Undisturbed(h) =>
      /\ io[h].size <= Len(file)
      /\ io[h].mode = "ReadOnly" => io[h].map = io[h].size \/ io[h].unmapped

\* Everything before the append position of a writer is what it appended, in
\* order, over what it found: a write that failed half way leaves no trace
\* before the cursor and none after the next append (Append, WriteAt).
AppendedIntact ==
    \A h \in Handles : Writer(h) /\ Undisturbed(h) =>
      io[h].append <= Len(file) /\ At(file, 0, io[h].append) = log[h]

\* A span of the map, which is the file itself, shows the bytes that were
\* read until Remap or the end of the handle (iohandler.h:98): the locks keep
\* everybody from writing meanwhile.
ViewsStable ==
    \A h \in Handles : Undisturbed(h) /\ io[h].mode = "ReadOnly" =>
      \A v \in views[h] : Shown(h, v) = v.bytes

-----------------------------------------------------------------------------
(* What the interface says and the code does not keep.                      *)

\* The same for every span: "Valid until the next Remap() call or
\* destruction" (iohandler.h:99).  In ReadWrite mode the next ReadAt fills
\* the buffer of the span before it (read_buf_, iohandler.cc:145).
SpansValid ==
    \A h \in Handles : Undisturbed(h) =>
      \A v \in views[h] : Shown(h, v) = v.bytes

\* A range beyond the file is refused (iohandler.h:100), also by a handle
\* whose file got shorter while it waited for its lock: fstat comes first.
RangeCheckExact ==
    \A h \in Handles : Ready(h) /\ h \notin emptied /\ doubled = {} =>
      io[h].size <= Len(file)

\* "The lock is held for the lifetime of the IOHandler object"
\* (iohandler.h:26), whatever other handles its process has or had.
LockForLife ==
    \A h \in Handles : Ready(h) => locks[Owner[h]] = LockType(io[h].mode)

\* The lock prevents "another process from modifying the archive while it is
\* open" (iohandler.h:27): no process empties what a writer has appended.
WrittenNotEmptied ==
    \A h \in Handles : Writer(h) /\ h \notin stale /\ doubled = {} =>
      io[h].append <= Len(file) /\ At(file, 0, io[h].append) = log[h]
=============================================================================
