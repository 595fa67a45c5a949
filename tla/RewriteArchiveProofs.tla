------------------------ MODULE RewriteArchiveProofs ------------------------
(***************************************************************************)
(* Proofs about RewriteArchive, for any number of processes: the locks     *)
(* keep the writer of a file apart from its readers and from every other   *)
(* writer, and a file that is open for reading does not change, but for    *)
(* the truncation by an archive's creator.                                 *)
(***************************************************************************)
EXTENDS RewriteArchive, FiniteSetTheorems, WellFoundedInduction, SequenceTheorems, TLAPS

-----------------------------------------------------------------------------
(* The invariant.                                                           *)

Fields == {"mode", "pc", "job", "reader", "rcat", "out", "locked", "pos", "wcat", "finalised"}

\* Where in a call the handle of the writer is open, and where it is locked.
Stage(x) ==
  \/ /\ x.pc \in {"idle", "open_out", "drop_reader", "rename", "reopen"}
     /\ x.mode \in {"closed", "opened"} /\ x.out = None /\ ~x.locked
  \/ /\ x.pc = "lock_out"
     /\ x.mode \in {"closed", "opened"} /\ x.out \in Inode /\ ~x.locked
  \/ /\ x.pc \in {"header", "copy", "finalise", "remove_tmp", "destroy"}
     /\ x.mode \in {"closed", "opened"} /\ x.out \in Inode /\ x.locked
  \/ /\ x.pc \in {"idle", "change", "finalise"}
     /\ x.mode = "created" /\ x.out \in Inode /\ x.locked
     /\ x.pc = "change" => x.job.call = "add"

\* The archive that is being created has no reader, and its process may
\* create one; all other calls are those of an opened archive.
Purpose(p, x) ==
  /\ x.mode # "opened" => x.reader = None
  /\ x.pc \in {"open_out", "lock_out", "header"} =>
       IF x.job.call = "create" THEN x.mode = "closed" /\ p \in Creator
                                ELSE x.mode = "opened"
  /\ x.pc \in {"copy", "remove_tmp", "destroy", "drop_reader", "rename", "reopen"} =>
       x.mode = "opened"
  /\ x.pc = "finalise" => x.mode # "closed"

\* The Archive object of a process: its fields, its place in a call, and its
\* two handles, which refer to different files.
ObjectOK(p, x) ==
  /\ DOMAIN x = Fields
  /\ x.reader \in Inode \cup {None} /\ x.locked \in BOOLEAN
  /\ Stage(x) /\ Purpose(p, x)
  /\ x.out # None => x.reader # x.out

ProcsOK == DOMAIN proc = Process /\ \A p \in Process : ObjectOK(p, proc[p])

\* The temporary file is another one than the archive, and nobody reads it.
NamesOK ==
  /\ DOMAIN name = {"archive", "tmp"}
  /\ name["archive"] \in Inode /\ name["tmp"] \in Inode \cup {None}
  /\ name["tmp"] # name["archive"]
  /\ \A p \in Process : proc[p].reader # None => proc[p].reader # name["tmp"]

WInv == DOMAIN file = Inode /\ ProcsOK /\ NamesOK /\ WriterExcludesReaders

-----------------------------------------------------------------------------
(* Records and inodes.                                                      *)

\* What ++ makes of the fields of a process.
LEMMA Changes ==
    ASSUME NEW c, NEW r, DOMAIN r = Fields, DOMAIN c \subseteq Fields
    PROVE  /\ DOMAIN (c ++ r) = Fields
           /\ \A f \in DOMAIN c : (c ++ r)[f] = c[f]
           /\ \A f \in Fields \ DOMAIN c : (c ++ r)[f] = r[f]
BY DEF ++

\* Inodes are natural numbers, of which None is none.
LEMMA Inodes ==
    /\ Cardinality(Process) \in Nat
    /\ Inode = 1 .. 2 + 2 * Cardinality(Process)
    /\ Inode \subseteq Nat /\ None \notin Inode
<1>1. Cardinality(Process) \in Nat
  BY ProcessAssumption, FS_CardinalityType DEF ProcessAssumption
<1> QED BY <1>1, NoneAssumption DEF Inode, NoneAssumption

\* A non-empty finite set of naturals has a least element.
LEMMA LeastExists ==
    ASSUME NEW S \in SUBSET Nat, IsFiniteSet(S), S # {}
    PROVE  \E m \in S : \A j \in S : m <= j
<1> DEFINE UpTo(n) == {k \in S : k <= n}
           Heads == {UpTo(n) : n \in S}
<1>0. Heads # {}
  OBVIOUS
<1>1. Heads \subseteq FiniteSubsetsOf(S)
  BY FS_Subset DEF FiniteSubsetsOf
<1>2. PICK x \in Heads : \A y \in Heads : ~ (<<y, x>> \in StrictSubsetOrdering(S))
  <2> HIDE DEF Heads
  <2> QED BY <1>0, <1>1, FS_StrictSubsetOrderingWellFounded, WFMin
<1>3. PICK m \in S : x = UpTo(m)
  BY <1>2
<1>4. ASSUME NEW j \in S, ~ (m <= j) PROVE FALSE
  <2>1. m \in Nat /\ j \in Nat /\ j < m
    BY <1>4
  <2>2. UpTo(j) \subseteq UpTo(m) /\ UpTo(j) # UpTo(m)
    <3>1. m \in UpTo(m) /\ m \notin UpTo(j)
      BY <2>1
    <3>2. UpTo(j) \subseteq UpTo(m)
      <4> SUFFICES ASSUME NEW k \in S, k <= j PROVE k <= m
        OBVIOUS
      <4> QED BY <2>1, k \in Nat
    <3> QED BY <3>1, <3>2
  <2>3. <<UpTo(j), UpTo(m)>> \in StrictSubsetOrdering(S)
    BY <2>2 DEF StrictSubsetOrdering
  <2> QED BY <1>2, <1>3, <2>3
<1> QED BY <1>4

\* A finite set has no more values of a function than elements.
LEMMA ValuesAreFew ==
    ASSUME NEW S, IsFiniteSet(S), NEW T, NEW f \in [S -> T],
           \A t \in T : \E x \in S : f[x] = t
    PROVE  IsFiniteSet(T) /\ Cardinality(T) \in Nat /\ Cardinality(T) <= Cardinality(S)
<1>2. f \in Surjection(S, T)
  BY DEF Surjection
<1>3. IsFiniteSet(T) /\ Cardinality(T) <= Cardinality(S)
  BY <1>2, FS_Surjection
<1>4. Cardinality(T) \in Nat
  BY <1>3, FS_CardinalityType
<1> QED BY <1>3, <1>4

\* There is a free inode for whoever has no handle of a writer: Fresh is one.
LEMMA FreshIsFree ==
    ASSUME ProcsOK, NamesOK, name["tmp"] = None
    PROVE  Fresh \in Inode \ InUse
<1> DEFINE N == Cardinality(Process)
           readers == {proc[p].reader : p \in Process}
           outs == {proc[p].out : p \in Process}
           free == Inode \ InUse
<1>1. IsFiniteSet(Process) /\ N \in Nat
  BY ProcessAssumption, FS_CardinalityType DEF ProcessAssumption
<1>2. IsFiniteSet(readers) /\ Cardinality(readers) <= N /\ Cardinality(readers) \in Nat
  <2> DEFINE f == [p \in Process |-> proc[p].reader]
  <2>1. f \in [Process -> readers] /\ \A t \in readers : \E p \in Process : f[p] = t
    OBVIOUS
  <2> HIDE DEF f, readers, N
  <2>2. IsFiniteSet(readers) /\ Cardinality(readers) \in Nat /\ Cardinality(readers) <= Cardinality(Process)
    BY <1>1, <2>1, ValuesAreFew
  <2> QED BY <2>2 DEF N
<1>3. IsFiniteSet(outs) /\ Cardinality(outs) <= N /\ Cardinality(outs) \in Nat
  <2> DEFINE f == [p \in Process |-> proc[p].out]
  <2>1. f \in [Process -> outs] /\ \A t \in outs : \E p \in Process : f[p] = t
    OBVIOUS
  <2> HIDE DEF f, outs, N
  <2>2. IsFiniteSet(outs) /\ Cardinality(outs) \in Nat /\ Cardinality(outs) <= Cardinality(Process)
    BY <1>1, <2>1, ValuesAreFew
  <2> QED BY <2>2 DEF N
<1> HIDE DEF readers, outs, N
<1>4. /\ IsFiniteSet(readers \cup outs)
      /\ Cardinality(readers \cup outs) \in Nat
      /\ Cardinality(readers \cup outs) <= 2 * N
  <2>1. IsFiniteSet(readers \cup outs)
    BY <1>2, <1>3, FS_Union
  <2>2. /\ Cardinality(readers \cup outs)
             = Cardinality(readers) + Cardinality(outs) - Cardinality(readers \cap outs)
        /\ Cardinality(readers \cup outs) \in Nat
    BY <1>2, <1>3, <2>1, FS_Union, FS_CardinalityType
  <2>3. Cardinality(readers \cap outs) \in Nat
    BY <1>2, FS_Intersection, FS_CardinalityType
  <2> QED BY <1>1, <1>2, <1>3, <2>1, <2>2, <2>3
<1> DEFINE used == (readers \cup outs) \cup {name["archive"]}
<1>5. IsFiniteSet(used) /\ Cardinality(used) \in Nat /\ Cardinality(used) <= 2 * N + 1
  <2>1. /\ IsFiniteSet(used)
        /\ Cardinality(used) = IF name["archive"] \in readers \cup outs
                               THEN Cardinality(readers \cup outs)
                               ELSE Cardinality(readers \cup outs) + 1
    BY <1>4, FS_AddElement
  <2> QED BY <1>1, <1>4, <2>1
<1>6. InUse \subseteq used \cup {None}
  <2>1. InUse = {name["archive"], None} \cup readers \cup outs
    BY Zenon DEF InUse, readers, outs
  <2> QED BY <2>1
<1>7. Cardinality(Inode) = 2 + 2 * N
  <2>1. 2 + 2 * N \in Nat /\ Inode = 1 .. 2 + 2 * N
    BY <1>1 DEF Inode, N
  <2> QED BY <2>1, <1>1, FS_Interval
<1>8. free # {}
  <2> SUFFICES ASSUME free = {} PROVE FALSE
    OBVIOUS
  <2>1. Inode \subseteq used
    BY <1>6, Inodes
  <2>2. Cardinality(Inode) <= Cardinality(used)
    BY <2>1, <1>5, FS_Subset
  <2> QED BY <2>2, <1>1, <1>5, <1>7
<1>9. free \in SUBSET Nat /\ IsFiniteSet(free)
  <2>1. free \in SUBSET Inode /\ IsFiniteSet(Inode)
    BY <1>1, Inodes, FS_Interval DEF N
  <2> QED BY <2>1, Inodes, FS_Subset
<1>10. \E i \in free : \A j \in free : i <= j
  <2> HIDE DEF free
  <2> QED BY <1>8, <1>9, LeastExists
<1> QED BY <1>10 DEF Fresh

-----------------------------------------------------------------------------
(* What a step of one process does to the others.                           *)

\* The object of p may become x without a look at the others: it opens no
\* handle and takes no lock.
Local(p, x) ==
  /\ ObjectOK(p, x)
  /\ x.reader \in {None, proc[p].reader}
  /\ x.out \in {None, proc[p].out}
  /\ x.locked => proc[p].locked

\* p writes nothing but the file it has locked.
Writes(p, items) ==
  /\ DOMAIN items = Inode
  /\ \A i \in Inode : items[i] # file[i] => i = proc[p].out /\ proc[p].locked

\* A file that stays open for reading does not change, or it is truncated by a
\* process that creates an archive.
Kept ==
  \A p \in Process :
    (proc[p].reader # None /\ proc'[p].reader = proc[p].reader) =>
      \/ file'[proc[p].reader] = file[proc[p].reader]
      \/ /\ file'[proc[p].reader] = <<>>
         /\ \E o \in Creator : At(o, "open_out") /\ proc[o].job.call = "create"

\* A step that changes no file, and one that changes the locked one.
LEMMA WritesOwn ==
    ASSUME WInv, NEW p \in Process
    PROVE  /\ Writes(p, file)
           /\ \A items : proc[p].locked => Writes(p, [file EXCEPT ![proc[p].out] = items])
BY DEF Writes, WInv

\* What such a step leaves of the files that are open for reading.
LEMMA WritesKeep ==
    ASSUME WInv, NEW p \in Process, NEW items, Writes(p, items),
           file' = items \/ file' = Reclaimed(items)
    PROVE  DOMAIN file' = Inode /\ Kept
<1>1. DOMAIN file' = Inode
  BY DEF Reclaimed, Writes
<1>2. ASSUME NEW q \in Process, proc[q].reader # None, proc'[q].reader = proc[q].reader
      PROVE  file'[proc[q].reader] = file[proc[q].reader]
  <2> DEFINE r == proc[q].reader
  <2>1. r \in Inode
    BY <1>2 DEF WInv, ProcsOK, ObjectOK
  <2>2. ~(r = proc[p].out /\ proc[p].locked)
    <3>1. CASE q = p
      <4>1. proc[p].out = r => proc[p].out # None
        BY <1>2
      <4> QED BY <3>1, <4>1 DEF WInv, ProcsOK, ObjectOK
    <3>2. CASE q # p
      BY <3>2 DEF WInv, WriterExcludesReaders
    <3> QED BY <3>1, <3>2
  <2>3. items[r] = file[r]
    BY <2>1, <2>2 DEF Writes
  <2>4. r \in InUse'
    <3>1. proc'[q].reader \in {proc'[o].reader : o \in Process}
      OBVIOUS
    <3> QED BY <3>1, <1>2 DEF InUse
  <2>5. file'[r] = items[r]
    BY <2>1, <2>4 DEF Reclaimed
  <2> QED BY <2>3, <2>5
<1> QED BY <1>1, <1>2 DEF Kept

\* A step that only changes the process itself, and its own file; the temporary
\* file may be removed.
LEMMA LocalStep ==
    ASSUME WInv, NEW p \in Process, NEW x, Local(p, x),
           proc' = [proc EXCEPT ![p] = x],
           name' = name \/ name' = [name EXCEPT !["tmp"] = None],
           NEW items, Writes(p, items), file' = items \/ file' = Reclaimed(items)
    PROVE  WInv' /\ Kept
<1>1. DOMAIN file' = Inode /\ Kept
  BY WritesKeep
<1>2. DOMAIN proc' = Process /\ \A q \in Process : proc'[q] = IF q = p THEN x ELSE proc[q]
  BY DEF WInv, ProcsOK
<1>3. ProcsOK'
  BY <1>2 DEF WInv, ProcsOK, Local
<1>4. /\ DOMAIN name' = {"archive", "tmp"} /\ name'["archive"] = name["archive"]
      /\ name'["tmp"] \in {None, name["tmp"]}
  BY DEF WInv, NamesOK
<1>5. NamesOK'
  <2>1. name'["archive"] \in Inode /\ name'["tmp"] \in Inode \cup {None}
    BY <1>4 DEF WInv, NamesOK
  <2>2. name'["tmp"] # name'["archive"]
    BY <1>4, <2>1, Inodes DEF WInv, NamesOK
  <2>3. ASSUME NEW q \in Process, proc'[q].reader # None
        PROVE  proc'[q].reader # name'["tmp"]
    <3>1. proc'[q].reader = proc[q].reader
      BY <1>2, <2>3 DEF Local
    <3> QED BY <1>4, <2>3, <3>1 DEF WInv, NamesOK
  <2> QED BY <1>4, <2>1, <2>2, <2>3 DEF NamesOK
<1>6. WriterExcludesReaders'
  <2> SUFFICES ASSUME NEW q \in Process, NEW o \in Process, q # o, proc'[q].locked
               PROVE  /\ proc'[o].reader # proc'[q].out
                      /\ ~(proc'[o].locked /\ proc'[o].out = proc'[q].out)
    BY DEF WriterExcludesReaders
  <2>1. /\ \A s \in Process : proc'[s].reader \in {None, proc[s].reader}
        /\ \A s \in Process : proc'[s].locked =>
             proc[s].locked /\ proc'[s].out = proc[s].out /\ proc'[s].out \in Inode
    <3>1. \A s \in Process : ObjectOK(s, proc'[s])
      BY <1>3 DEF ProcsOK
    <3>2. \A s \in Process : proc'[s].locked => proc'[s].out \in Inode
      BY <3>1, Zenon DEF ObjectOK, Stage
    <3> QED BY <1>2, <3>2, Inodes DEF Local
  <2>2. proc[q].locked /\ proc'[q].out = proc[q].out /\ proc'[q].out \in Inode
    BY <2>1
  <2>3. proc[o].reader # proc[q].out /\ ~(proc[o].locked /\ proc[o].out = proc[q].out)
    BY <2>2 DEF WInv, WriterExcludesReaders
  <2> QED BY <2>1, <2>2, <2>3, Inodes
<1> QED BY <1>1, <1>3, <1>5, <1>6 DEF WInv

\* A reader is opened where no other process writes.
LEMMA OpenStep ==
    ASSUME WInv, NEW p \in Process, CanOpen(p), proc[p].out = None,
           NEW x, ObjectOK(p, x), x.reader = name["archive"], x.out = None,
           proc' = [proc EXCEPT ![p] = x], file' = file, name' = name
    PROVE  WInv' /\ Kept
<1>1. DOMAIN file' = Inode /\ Kept
  BY WritesOwn, WritesKeep
<1>2. DOMAIN proc' = Process /\ \A q \in Process : proc'[q] = IF q = p THEN x ELSE proc[q]
  BY DEF WInv, ProcsOK
<1>3. ProcsOK'
  BY <1>2 DEF WInv, ProcsOK
<1>4. NamesOK'
  <2>1. \A q \in Process : proc'[q].reader # None => proc'[q].reader # name'["tmp"]
    BY <1>2 DEF WInv, NamesOK
  <2> QED BY <2>1 DEF WInv, NamesOK
<1>5. WriterExcludesReaders'
  <2> SUFFICES ASSUME NEW q \in Process, NEW o \in Process, q # o, proc'[q].locked
               PROVE  /\ proc'[o].reader # proc'[q].out
                      /\ ~(proc'[o].locked /\ proc'[o].out = proc'[q].out)
    BY DEF WriterExcludesReaders
  <2>1. ~x.locked
    BY Inodes DEF ObjectOK, Stage
  <2>2. q # p /\ proc'[q] = proc[q]
    BY <1>2, <2>1
  <2>3. proc[o].reader # proc[q].out /\ ~(proc[o].locked /\ proc[o].out = proc[q].out)
    BY <2>2 DEF WInv, WriterExcludesReaders
  <2>4. o = p => name["archive"] # proc[q].out
    BY <2>2 DEF CanOpen, WriteLocked
  <2> QED BY <1>2, <2>1, <2>2, <2>3, <2>4
<1> QED BY <1>1, <1>3, <1>4, <1>5 DEF WInv

\* A writer gets its lock where no other process reads or writes.
LEMMA LockStep ==
    ASSUME WInv, NEW p \in Process, ~Locked(proc[p].out, p),
           NEW x, ObjectOK(p, x), x.reader = proc[p].reader, x.out = proc[p].out,
           proc' = [proc EXCEPT ![p] = x], file' = file, name' = name
    PROVE  WInv' /\ Kept
<1>1. DOMAIN file' = Inode /\ Kept
  BY WritesOwn, WritesKeep
<1>2. DOMAIN proc' = Process /\ \A q \in Process : proc'[q] = IF q = p THEN x ELSE proc[q]
  BY DEF WInv, ProcsOK
<1>3. ProcsOK'
  BY <1>2 DEF WInv, ProcsOK
<1>4. NamesOK'
  <2>1. \A q \in Process : proc'[q].reader = proc[q].reader
    BY <1>2
  <2> QED BY <2>1 DEF WInv, NamesOK
<1>5. WriterExcludesReaders'
  <2> SUFFICES ASSUME NEW q \in Process, NEW o \in Process, q # o, proc'[q].locked
               PROVE  /\ proc'[o].reader # proc'[q].out
                      /\ ~(proc'[o].locked /\ proc'[o].out = proc'[q].out)
    BY DEF WriterExcludesReaders
  <2>1. \A s \in Process : proc'[s].reader = proc[s].reader /\ proc'[s].out = proc[s].out
    BY <1>2
  <2>2. \A s \in Process \ {p} :
           proc[s].reader # proc[p].out /\ ~(proc[s].locked /\ proc[s].out = proc[p].out)
    BY DEF Locked, WriteLocked
  <2>3. CASE q = p
    BY <1>2, <2>1, <2>2, <2>3
  <2>4. CASE q # p
    <3>1. proc[q].locked
      BY <1>2, <2>4
    <3>2. proc[o].reader # proc[q].out /\ ~(proc[o].locked /\ proc[o].out = proc[q].out)
      BY <3>1 DEF WInv, WriterExcludesReaders
    <3> QED BY <1>2, <2>1, <2>2, <2>4, <3>2
  <2> QED BY <2>3, <2>4
<1> QED BY <1>1, <1>3, <1>4, <1>5 DEF WInv

\* The temporary file replaces the archive.
LEMMA RenameStep ==
    ASSUME WInv, NEW p \in Process, name["tmp"] # None, NEW x, Local(p, x),
           proc' = [proc EXCEPT ![p] = x], file' = Reclaimed(file),
           name' = [archive |-> name["tmp"], tmp |-> None]
    PROVE  WInv' /\ Kept
<1>1. DOMAIN file' = Inode /\ Kept
  BY WritesOwn, WritesKeep
<1>2. DOMAIN proc' = Process /\ \A q \in Process : proc'[q] = IF q = p THEN x ELSE proc[q]
  BY DEF WInv, ProcsOK
<1>3. ProcsOK'
  BY <1>2 DEF WInv, ProcsOK, Local
<1>4. NamesOK'
  <2>1. name'["archive"] \in Inode /\ name'["tmp"] = None
    BY DEF WInv, NamesOK
  <2>2. DOMAIN name' = {"archive", "tmp"} /\ name'["tmp"] # name'["archive"]
    BY <2>1, Inodes
  <2> QED BY <2>1, <2>2 DEF NamesOK
<1>5. WriterExcludesReaders'
  <2> SUFFICES ASSUME NEW q \in Process, NEW o \in Process, q # o, proc'[q].locked
               PROVE  /\ proc'[o].reader # proc'[q].out
                      /\ ~(proc'[o].locked /\ proc'[o].out = proc'[q].out)
    BY DEF WriterExcludesReaders
  <2>1. \A s \in Process : ObjectOK(s, proc'[s])
    BY <1>3 DEF ProcsOK
  <2>2. \A s \in Process : proc'[s].locked => proc'[s].out \in Inode
    BY <2>1, Zenon DEF ObjectOK, Stage
  <2>3. \A s \in Process : proc'[s].locked => proc[s].locked /\ proc'[s].out = proc[s].out
    BY <1>2, <2>2, Inodes DEF Local
  <2>4. proc[o].reader # proc[q].out /\ ~(proc[o].locked /\ proc[o].out = proc[q].out)
    BY <2>3 DEF WInv, WriterExcludesReaders
  <2>5. proc'[o].reader \in {None, proc[o].reader}
    BY <1>2 DEF Local
  <2> QED BY <2>2, <2>3, <2>4, <2>5, Inodes
<1> QED BY <1>1, <1>3, <1>4, <1>5 DEF WInv

-----------------------------------------------------------------------------
(* The actions.                                                             *)

\* Which fields a change of the object of p sets, and which it keeps.
LEMMA Object ==
    ASSUME WInv, NEW p \in Process, NEW c, DOMAIN c \subseteq Fields
    PROVE  /\ ObjectOK(p, proc[p]) /\ DOMAIN (c ++ proc[p]) = Fields
           /\ \A f \in DOMAIN c : (c ++ proc[p])[f] = c[f]
           /\ \A f \in Fields \ DOMAIN c : (c ++ proc[p])[f] = proc[p][f]
<1>1. ObjectOK(p, proc[p]) /\ DOMAIN proc[p] = Fields
  BY DEF WInv, ProcsOK, ObjectOK
<1> QED BY <1>1, Changes

\* The object is closed, whatever the call has come to.
LEMMA ToClosed ==
    ASSUME WInv, NEW p \in Process
    PROVE  Local(p, Closed ++ proc[p])
<1> DEFINE x == Closed ++ proc[p]
<1>1. DOMAIN Closed = Fields /\ Fields \subseteq Fields
  BY DEF Closed, Fields
<1>2. DOMAIN x = Fields /\ \A f \in Fields : x[f] = Closed[f]
  BY <1>1, Object
<1>3. x.mode = "closed" /\ x.pc = "idle" /\ x.reader = None /\ x.out = None /\ x.locked = FALSE
  BY <1>2 DEF Closed, Fields
<1> HIDE DEF x
<1>4. Stage(x) /\ Purpose(p, x)
  BY <1>3 DEF Stage, Purpose
<1>5. Local(p, x)
  BY <1>2, <1>3, <1>4 DEF Local, ObjectOK
<1> QED BY <1>5 DEF x

\* The call returns, and the writer is destroyed with its lock.
LEMMA ToReleased ==
    ASSUME WInv, NEW p \in Process, proc[p].mode # "created"
    PROVE  /\ Local(p, (Returned ++ Released) ++ proc[p])
           /\ proc[p].mode = "opened" => Local(p, ([pc |-> "drop_reader"] ++ Released) ++ proc[p])
<1>1. ASSUME NEW c, DOMAIN c \subseteq Fields, DOMAIN c \cap {"mode", "reader"} = {},
             {"pc", "out", "locked"} \subseteq DOMAIN c,
             c.pc = "idle" \/ (c.pc = "drop_reader" /\ proc[p].mode = "opened"),
             c.out = None, c.locked = FALSE
      PROVE  Local(p, c ++ proc[p])
  <2> DEFINE x == c ++ proc[p]
  <2>1. ObjectOK(p, proc[p]) /\ DOMAIN x = Fields
    BY <1>1, Object
  <2>2. x.pc = c.pc /\ x.out = None /\ x.locked = FALSE
    BY <1>1, Object
  <2>3. x.mode = proc[p].mode /\ x.reader = proc[p].reader
    BY <1>1, Object DEF Fields
  <2> HIDE DEF x
  <2>4. proc[p].mode \in {"closed", "opened"}
    BY <2>1 DEF ObjectOK, Stage
  <2>5. Stage(x)
    BY <1>1, <2>2, <2>3, <2>4 DEF Stage
  <2>6. Purpose(p, x)
    BY <1>1, <2>1, <2>2, <2>3 DEF ObjectOK, Purpose
  <2>7. Local(p, x)
    BY <2>1, <2>2, <2>3, <2>5, <2>6 DEF Local, ObjectOK
  <2> QED BY <2>7 DEF x
<1> DEFINE c1 == Returned ++ Released
           c2 == [pc |-> "drop_reader"] ++ Released
<1>2. /\ DOMAIN c1 = {"pc", "job", "out", "locked", "pos", "wcat", "finalised"}
      /\ c1.pc = "idle" /\ c1.out = None /\ c1.locked = FALSE
  BY DEF ++, Returned, Released
<1>3. /\ DOMAIN c2 = {"pc", "out", "locked", "pos", "wcat", "finalised"}
      /\ c2.pc = "drop_reader" /\ c2.out = None /\ c2.locked = FALSE
  BY DEF ++, Released
<1> HIDE DEF c1, c2
<1>4. Local(p, c1 ++ proc[p])
  BY <1>1, <1>2 DEF Fields
<1>5. proc[p].mode = "opened" => Local(p, c2 ++ proc[p])
  BY <1>1, <1>3 DEF Fields
<1> QED BY <1>4, <1>5 DEF c1, c2

\* Another step of the call: the handles stay as they are.
LEMMA ToStep ==
    ASSUME WInv, NEW p \in Process, NEW c,
           DOMAIN c \subseteq Fields \ {"reader", "out", "locked"}
    PROVE  LET x == c ++ proc[p]
           IN  (Stage(x) /\ Purpose(p, x)) => Local(p, x)
<1> DEFINE x == c ++ proc[p]
<1>1. ObjectOK(p, proc[p]) /\ DOMAIN x = Fields
  BY Object
<1>2. x.reader = proc[p].reader /\ x.out = proc[p].out /\ x.locked = proc[p].locked
  BY Object DEF Fields
<1> HIDE DEF x
<1>3. (Stage(x) /\ Purpose(p, x)) => Local(p, x)
  BY <1>1, <1>2 DEF Local, ObjectOK
<1> QED BY <1>3 DEF x

\* The fields that say where a call is, after a change that keeps the handles.
LEMMA Places ==
    ASSUME WInv, NEW p \in Process, NEW c,
           DOMAIN c \subseteq Fields \ {"reader", "out", "locked"}
    PROVE  LET x == c ++ proc[p]
           IN  /\ x.pc = IF "pc" \in DOMAIN c THEN c.pc ELSE proc[p].pc
               /\ x.mode = IF "mode" \in DOMAIN c THEN c.mode ELSE proc[p].mode
               /\ x.job = IF "job" \in DOMAIN c THEN c.job ELSE proc[p].job
               /\ x.reader = proc[p].reader /\ x.out = proc[p].out
               /\ x.locked = proc[p].locked
<1> DEFINE x == c ++ proc[p]
<1>1. \A f \in Fields : x[f] = IF f \in DOMAIN c THEN c[f] ELSE proc[p][f]
  BY Object
<1> HIDE DEF x
<1>2. /\ x.pc = IF "pc" \in DOMAIN c THEN c.pc ELSE proc[p].pc
      /\ x.mode = IF "mode" \in DOMAIN c THEN c.mode ELSE proc[p].mode
      /\ x.job = IF "job" \in DOMAIN c THEN c.job ELSE proc[p].job
      /\ x.reader = proc[p].reader /\ x.out = proc[p].out
      /\ x.locked = proc[p].locked
  BY <1>1 DEF Fields
<1> QED BY <1>2 DEF x

\* What is left to show of a step that keeps the handles: where it leads to.
LEMMA MoveOn ==
    ASSUME WInv, NEW p \in Process, NEW c,
           DOMAIN c \subseteq Fields \ {"reader", "out", "locked"},
           Stage(c ++ proc[p]), Purpose(p, c ++ proc[p]), Becomes(p, c),
           name' = name \/ name' = [name EXCEPT !["tmp"] = None],
           NEW items, Writes(p, items), file' = items \/ file' = Reclaimed(items)
    PROVE  WInv' /\ Kept
<1>1. Local(p, c ++ proc[p])
  BY ToStep
<1>2. proc' = [proc EXCEPT ![p] = c ++ proc[p]]
  BY DEF Becomes
<1> QED BY <1>1, <1>2, LocalStep

\* A step with which the object is closed, or its process dies.
LEMMA CloseStep ==
    ASSUME WInv, NEW p \in Process, Becomes(p, Closed), name' = name,
           NEW items, Writes(p, items), file' = items \/ file' = Reclaimed(items)
    PROVE  WInv' /\ Kept
<1>1. proc' = [proc EXCEPT ![p] = Closed ++ proc[p]]
  BY DEF Becomes
<1> QED BY <1>1, ToClosed, LocalStep

\* A step with which the writer goes.
LEMMA ReleaseStep ==
    ASSUME WInv, NEW p \in Process, proc[p].mode # "created", name' = name,
           \/ Becomes(p, Returned ++ Released)
           \/ Becomes(p, [pc |-> "drop_reader"] ++ Released) /\ proc[p].mode = "opened",
           NEW items, Writes(p, items), file' = items \/ file' = Reclaimed(items)
    PROVE  WInv' /\ Kept
<1>1. PICK x : proc' = [proc EXCEPT ![p] = x] /\ Local(p, x)
  BY ToReleased DEF Becomes
<1> QED BY <1>1, LocalStep

\* The facts about the place of a process that its actions start from.
LEMMA Place ==
    ASSUME WInv, NEW p \in Process
    PROVE  Stage(proc[p]) /\ Purpose(p, proc[p])
BY DEF WInv, ProcsOK, ObjectOK

\* Opening an archive that is not open, and after a rewrite.
LEMMA Opens ==
    ASSUME WInv, NEW p \in Process, Open(p) \/ Reopen(p)
    PROVE  WInv' /\ Kept
<1>1. PICK c : /\ c = Opened \/ c = Opened ++ Returned
               /\ Becomes(p, c)
  BY DEF Open, Reopen
<1>2. /\ DOMAIN c \subseteq Fields \ {"out", "locked"} /\ {"mode", "reader"} \subseteq DOMAIN c
      /\ c.mode = "opened" /\ c.reader = name["archive"]
      /\ "pc" \in DOMAIN c => c.pc = "idle"
  <2>1. /\ DOMAIN Opened = {"mode", "reader", "rcat"}
        /\ Opened.mode = "opened" /\ Opened.reader = name["archive"]
    BY DEF Opened
  <2>2. /\ DOMAIN (Opened ++ Returned) = {"mode", "reader", "rcat", "pc", "job"}
        /\ (Opened ++ Returned).mode = "opened" /\ (Opened ++ Returned).reader = name["archive"]
        /\ (Opened ++ Returned).pc = "idle"
    BY DEF ++, Opened, Returned
  <2>3. {"mode", "reader", "rcat", "pc", "job"} \subseteq Fields \ {"out", "locked"}
    BY DEF Fields
  <2> QED BY <1>1, <2>1, <2>2, <2>3
<1> DEFINE x == c ++ proc[p]
<1>3. \A f \in Fields : x[f] = IF f \in DOMAIN c THEN c[f] ELSE proc[p][f]
  BY <1>2, Object
<1>4. DOMAIN x = Fields
  BY <1>2, Object
<1>5. proc' = [proc EXCEPT ![p] = x]
  BY <1>1 DEF Becomes
<1> HIDE DEF x
<1>6. proc[p].pc \in {"idle", "reopen"} /\ proc[p].mode \in {"closed", "opened"}
  BY Place DEF Open, Reopen, Idle, At, Stage
<1>7. proc[p].out = None /\ proc[p].locked = FALSE
  BY <1>6, Place DEF WInv, ProcsOK, ObjectOK, Stage
<1>8. /\ x.mode = "opened" /\ x.reader = name["archive"] /\ x.out = None /\ x.locked = FALSE
      /\ x.pc \in {"idle", "reopen"}
  BY <1>2, <1>3, <1>6, <1>7 DEF Fields
<1>9. ObjectOK(p, x)
  <2>1. Stage(x) /\ Purpose(p, x)
    BY <1>8 DEF Stage, Purpose
  <2>2. name["archive"] \in Inode
    BY DEF WInv, NamesOK
  <2> QED BY <1>4, <1>8, <2>1, <2>2 DEF ObjectOK
<1>10. CanOpen(p) /\ file' = file /\ name' = name
  BY DEF Open, Reopen
<1> QED BY <1>5, <1>7, <1>8, <1>9, <1>10, OpenStep

\* The calls that begin something: nothing but the place of p changes.
LEMMA Begins ==
    ASSUME WInv, NEW p \in Process,
           \/ Create(p) \/ CloseNew(p)
           \/ \E f \in Path, c \in Content : AddToNew(p, f, c) \/ AddFile(p, f, c)
           \/ \E f \in Path, soft \in BOOLEAN : DeleteFile(p, f, soft)
           \/ \E f \in Path, g \in Path : RenameFile(p, f, g)
    PROVE  WInv' /\ Kept
<1>1. PICK mode, pc, job :
        /\ Call(p, mode, pc, job)
        /\ \/ mode = "closed" /\ pc = "open_out" /\ job.call = "create" /\ p \in Creator
           \/ mode = "created" /\ pc = "change" /\ job.call = "add"
           \/ mode = "created" /\ pc = "finalise"
           \/ mode = "opened" /\ pc = "open_out" /\ job.call # "create"
  <2>1. CASE Create(p)
    BY <2>1 DEF Create
  <2>2. CASE CloseNew(p)
    BY <2>2 DEF CloseNew
  <2>3. CASE \E f \in Path, c \in Content : AddToNew(p, f, c)
    <3>1. PICK f \in Path, c \in Content : AddToNew(p, f, c)
      BY <2>3
    <3> DEFINE j == [call |-> "add", path |-> f, content |-> c]
    <3>2. Call(p, "created", "change", j) /\ j.call = "add"
      BY <3>1 DEF AddToNew
    <3> HIDE DEF j
    <3> QED BY <3>2
  <2>4. ASSUME NEW j, Rewrite(p, j), "call" \in DOMAIN j, j.call # "create"
        PROVE  \E job : Call(p, "opened", "open_out", job) /\ job.call # "create"
    <3> DEFINE l == [left |-> LiveFiles(proc[p].rcat)]
    <3>1. DOMAIN l = {"left"}
      OBVIOUS
    <3>2. Call(p, "opened", "open_out", l ++ j)
      BY <2>4 DEF Rewrite
    <3> HIDE DEF l
    <3>3. (l ++ j).call = j.call
      BY <2>4, <3>1 DEF ++
    <3> QED BY <2>4, <3>2, <3>3
  <2>5. CASE \E f \in Path, c \in Content : AddFile(p, f, c)
    <3>1. PICK f \in Path, c \in Content : AddFile(p, f, c)
      BY <2>5
    <3> DEFINE j == [call |-> "add", path |-> f, content |-> c]
    <3>2. Rewrite(p, j) /\ "call" \in DOMAIN j /\ j.call # "create"
      BY <3>1 DEF AddFile
    <3> HIDE DEF j
    <3> QED BY <3>2, <2>4
  <2>6. CASE \E f \in Path, soft \in BOOLEAN : DeleteFile(p, f, soft)
    <3>1. PICK f \in Path, soft \in BOOLEAN : DeleteFile(p, f, soft)
      BY <2>6
    <3> DEFINE j == [call |-> "delete", path |-> f, soft |-> soft]
    <3>2. Rewrite(p, j) /\ "call" \in DOMAIN j /\ j.call # "create"
      BY <3>1 DEF DeleteFile
    <3> HIDE DEF j
    <3> QED BY <3>2, <2>4
  <2>7. CASE \E f \in Path, g \in Path : RenameFile(p, f, g)
    <3>1. PICK f \in Path, g \in Path : RenameFile(p, f, g)
      BY <2>7
    <3> DEFINE j == [call |-> "rename", path |-> f, to |-> g]
    <3>2. Rewrite(p, j) /\ "call" \in DOMAIN j /\ j.call # "create"
      BY <3>1 DEF RenameFile
    <3> HIDE DEF j
    <3> QED BY <3>2, <2>4
  <2> QED BY <2>1, <2>2, <2>3, <2>5, <2>6, <2>7
<1> DEFINE c == [pc |-> pc, job |-> job]
           x == c ++ proc[p]
<1>2. proc[p].pc = "idle" /\ proc[p].mode = mode
  BY <1>1 DEF Call, Idle, At
<1>3. /\ DOMAIN c = {"pc", "job"} /\ c.pc = pc /\ c.job = job
      /\ Becomes(p, c) /\ name' = name /\ file' = file
  BY <1>1 DEF Call
<1> HIDE DEF c
<1>4. DOMAIN c \subseteq Fields \ {"reader", "out", "locked"}
  BY <1>3 DEF Fields
<1>5. /\ x.pc = pc /\ x.mode = mode /\ x.job = job
      /\ x.reader = proc[p].reader /\ x.out = proc[p].out /\ x.locked = proc[p].locked
  BY <1>2, <1>3, <1>4, Places
<1> HIDE DEF x
<1>6. Stage(x)
  BY <1>1, <1>2, <1>5, Place DEF Stage
<1>7. Purpose(p, x)
  BY <1>1, <1>2, <1>5, Place DEF Purpose
<1> QED BY <1>3, <1>4, <1>6, <1>7, MoveOn, WritesOwn DEF x

\* The calls of the program, and the steps that close the object.
LEMMA CallsKeep ==
    ASSUME WInv, NEW p \in Process, Calls(p) \/ ReopenFails(p) \/ \E f \in Path : CopyDies(p, f)
    PROVE  WInv' /\ Kept
<1>1. CASE Open(p)
  BY <1>1, Opens
<1>2. CASE OpenFails(p)
  BY <1>2 DEF OpenFails, vars, WInv, ProcsOK, NamesOK, WriterExcludesReaders, Kept,
              Inode
<1>3. CASE Close(p)
  BY <1>3, CloseStep, WritesOwn DEF Close
<1>4. CASE \/ Create(p) \/ CloseNew(p)
           \/ \E f \in Path, c \in Content : AddToNew(p, f, c) \/ AddFile(p, f, c)
           \/ \E f \in Path, soft \in BOOLEAN : DeleteFile(p, f, soft)
           \/ \E f \in Path, g \in Path : RenameFile(p, f, g)
  BY <1>4, Begins
<1>5. CASE \E f \in Path : ExtractFile(p, f) \/ CopyDies(p, f)
  BY <1>5, CloseStep, WritesOwn DEF ExtractFile, CopyDies, Dies
<1>6. CASE ReopenFails(p)
  BY <1>6, CloseStep, WritesOwn DEF ReopenFails
<1> QED BY <1>1, <1>2, <1>3, <1>4, <1>5, <1>6 DEF Calls

\* The writer's Init opens a file that nobody reads, unless it creates an archive.
LEMMA OpensOut ==
    ASSUME WInv, NEW p \in Process, OpenOut(p)
    PROVE  WInv' /\ Kept
<1> DEFINE n == OutName(p)
           i == IF name[n] = None THEN Fresh ELSE name[n]
           c == [pc |-> "lock_out", out |-> i]
           x == c ++ proc[p]
<1>1. /\ proc[p].pc = "open_out" /\ file' = [file EXCEPT ![i] = <<>>]
      /\ name' = [name EXCEPT ![n] = i] /\ proc' = [proc EXCEPT ![p] = x]
  BY DEF OpenOut, Becomes, At
<1>2. /\ proc[p].mode \in {"closed", "opened"} /\ proc[p].out = None /\ ~proc[p].locked
      /\ IF proc[p].job.call = "create" THEN proc[p].mode = "closed" /\ p \in Creator
                                        ELSE proc[p].mode = "opened"
  BY <1>1, Place DEF Stage, Purpose
<1>3. \/ n = "archive" /\ proc[p].job.call = "create" /\ i = name["archive"] /\ i \in Inode
      \/ n = "tmp" /\ proc[p].job.call # "create" /\ i \in Inode /\ i # name["archive"]
         /\ \A q \in Process : proc[q].reader # None => proc[q].reader # i
  <2>1. CASE proc[p].job.call = "create"
    BY <2>1, Inodes DEF OutName, WInv, NamesOK
  <2>2. CASE proc[p].job.call # "create" /\ name["tmp"] = None
    <3>1. n = "tmp" /\ i = Fresh
      BY <2>2 DEF OutName
    <3>2. Fresh \in Inode /\ Fresh \notin InUse
      BY <2>2, FreshIsFree DEF WInv
    <3>3. name["archive"] \in InUse /\ \A q \in Process : proc[q].reader \in InUse
      BY DEF InUse
    <3> HIDE DEF n, i
    <3> QED BY <2>2, <3>1, <3>2, <3>3
  <2>3. CASE proc[p].job.call # "create" /\ name["tmp"] # None
    BY <2>3 DEF OutName, WInv, NamesOK
  <2> QED BY <2>1, <2>2, <2>3
<1>4. i \in Inode /\ (proc[p].reader # None => proc[p].reader # i)
  BY <1>2, <1>3, Place DEF Purpose
<1> HIDE DEF n, i
<1>5. DOMAIN c \subseteq Fields /\ DOMAIN c = {"pc", "out"} /\ c.pc = "lock_out" /\ c.out = i
  BY DEF Fields
<1> HIDE DEF c
<1>6. DOMAIN x = Fields /\ \A f \in Fields : x[f] = IF f \in DOMAIN c THEN c[f] ELSE proc[p][f]
  BY <1>5, Object
<1> HIDE DEF x
<1>7. /\ x.pc = "lock_out" /\ x.out = i /\ x.mode = proc[p].mode /\ x.job = proc[p].job
      /\ x.reader = proc[p].reader /\ x.locked = proc[p].locked
  BY <1>5, <1>6 DEF Fields
<1>8. ObjectOK(p, x)
  <2>1. Stage(x)
    BY <1>2, <1>4, <1>7 DEF Stage
  <2>2. Purpose(p, x)
    BY <1>2, <1>7, Place DEF Purpose
  <2>3. proc[p].reader \in Inode \cup {None} /\ proc[p].locked \in BOOLEAN
    BY DEF WInv, ProcsOK, ObjectOK
  <2> QED BY <1>4, <1>6, <1>7, <2>1, <2>2, <2>3, Inodes DEF ObjectOK
<1>9. DOMAIN proc' = Process /\ \A q \in Process : proc'[q] = IF q = p THEN x ELSE proc[q]
  BY <1>1 DEF WInv, ProcsOK
<1>10. DOMAIN file' = Inode /\ \A j \in Inode : file'[j] = IF j = i THEN <<>> ELSE file[j]
  BY <1>1 DEF WInv
<1>11. ProcsOK'
  BY <1>8, <1>9 DEF WInv, ProcsOK
<1>12. \A q \in Process : proc'[q].reader = proc[q].reader
  BY <1>7, <1>9
<1>13. NamesOK'
  <2>1. CASE n = "archive"
    <3>1. /\ DOMAIN name' = {"archive", "tmp"} /\ name'["archive"] = name["archive"]
          /\ name'["tmp"] = name["tmp"]
      BY <1>1, <1>3, <2>1 DEF WInv, NamesOK
    <3> QED BY <1>12, <3>1 DEF WInv, NamesOK
  <2>2. CASE n = "tmp"
    <3>1. DOMAIN name' = {"archive", "tmp"} /\ name'["archive"] = name["archive"] /\ name'["tmp"] = i
      BY <1>1, <2>2 DEF WInv, NamesOK
    <3> QED BY <1>3, <1>12, <2>2, <3>1 DEF WInv, NamesOK
  <2> QED BY <1>3, <2>1, <2>2
<1>14. WriterExcludesReaders'
  <2> SUFFICES ASSUME NEW q \in Process, NEW o \in Process, q # o, proc'[q].locked
               PROVE  /\ proc'[o].reader # proc'[q].out
                      /\ ~(proc'[o].locked /\ proc'[o].out = proc'[q].out)
    BY DEF WriterExcludesReaders
  <2>1. q # p /\ proc'[q] = proc[q] /\ proc[q].locked
    BY <1>2, <1>7, <1>9
  <2>2. proc[o].reader # proc[q].out /\ ~(proc[o].locked /\ proc[o].out = proc[q].out)
    BY <2>1 DEF WInv, WriterExcludesReaders
  <2> QED BY <1>2, <1>7, <1>9, <1>12, <2>1, <2>2
<1>15. Kept
  <2> SUFFICES ASSUME NEW q \in Process, proc[q].reader # None
               PROVE  \/ file'[proc[q].reader] = file[proc[q].reader]
                      \/ /\ file'[proc[q].reader] = <<>>
                         /\ \E o \in Creator : At(o, "open_out") /\ proc[o].job.call = "create"
    BY DEF Kept
  <2>1. proc[q].reader \in Inode
    BY DEF WInv, ProcsOK, ObjectOK
  <2>2. CASE proc[q].reader # i
    BY <1>10, <2>1, <2>2
  <2>3. CASE proc[q].reader = i
    <3>1. proc[p].job.call = "create" /\ p \in Creator
      BY <1>2, <1>3, <2>3
    <3> QED BY <1>1, <1>10, <2>1, <2>3, <3>1 DEF At
  <2> QED BY <2>2, <2>3
<1> QED BY <1>10, <1>11, <1>13, <1>14, <1>15 DEF WInv

\* The lock: it is got, or the call ends.
LEMMA Locks ==
    ASSUME WInv, NEW p \in Process, LockOut(p) \/ LockFails(p)
    PROVE  WInv' /\ Kept
<1>1. /\ proc[p].pc = "lock_out" /\ proc[p].mode \in {"closed", "opened"}
      /\ proc[p].out \in Inode /\ proc[p].mode # "created"
  BY Place DEF LockOut, LockFails, At, Stage
<1>2. CASE LockOut(p)
  <2> DEFINE c == [pc |-> "header", locked |-> TRUE]
             x == c ++ proc[p]
  <2>1. DOMAIN c \subseteq Fields /\ DOMAIN c = {"pc", "locked"} /\ c.pc = "header" /\ c.locked = TRUE
    BY DEF Fields
  <2>2. /\ proc' = [proc EXCEPT ![p] = x] /\ ~Locked(proc[p].out, p)
        /\ file' = file /\ name' = name
    BY <1>2 DEF LockOut, Becomes
  <2> HIDE DEF c
  <2>3. DOMAIN x = Fields /\ \A f \in Fields : x[f] = IF f \in DOMAIN c THEN c[f] ELSE proc[p][f]
    BY <2>1, Object
  <2> HIDE DEF x
  <2>4. /\ x.pc = "header" /\ x.out = proc[p].out /\ x.mode = proc[p].mode
        /\ x.job = proc[p].job /\ x.reader = proc[p].reader /\ x.locked = TRUE
    BY <2>1, <2>3 DEF Fields
  <2>5. Stage(x)
    BY <1>1, <2>4 DEF Stage
  <2>6. Purpose(p, x)
    BY <1>1, <2>4, Place DEF Purpose
  <2>7. proc[p].reader \in Inode \cup {None} /\ (proc[p].out # None => proc[p].reader # proc[p].out)
    BY DEF WInv, ProcsOK, ObjectOK
  <2>8. ObjectOK(p, x)
    BY <2>3, <2>4, <2>5, <2>6, <2>7 DEF ObjectOK
  <2> QED BY <2>2, <2>4, <2>8, LockStep
<1>3. CASE LockFails(p)
  BY <1>1, <1>3, ReleaseStep, WritesOwn DEF LockFails
<1> QED BY <1>2, <1>3

\* The header is written: an archive has been created, or the copying begins.
LEMMA Headers ==
    ASSUME WInv, NEW p \in Process, Header(p)
    PROVE  WInv' /\ Kept
<1>1. /\ proc[p].pc = "header" /\ proc[p].mode \in {"closed", "opened"}
      /\ proc[p].out \in Inode /\ proc[p].locked
      /\ IF proc[p].job.call = "create" THEN proc[p].mode = "closed" ELSE proc[p].mode = "opened"
      /\ proc[p].mode # "opened" => proc[p].reader = None
  BY Place DEF Header, At, Stage, Purpose
<1>2. PICK c : /\ Becomes(p, c) /\ DOMAIN c \subseteq {"pos", "mode", "pc", "job"}
               /\ \/ /\ proc[p].job.call = "create" /\ {"mode", "pc"} \subseteq DOMAIN c
                     /\ c.mode = "created" /\ c.pc = "idle"
                  \/ /\ proc[p].job.call # "create" /\ "pc" \in DOMAIN c
                     /\ "mode" \notin DOMAIN c /\ c.pc = "copy"
  <2>1. CASE proc[p].job.call = "create"
    <3> DEFINE c == [pos |-> 1] ++ ([mode |-> "created"] ++ Returned)
    <3>1. Becomes(p, c)
      BY <2>1 DEF Header
    <3>2. DOMAIN c = {"pos", "mode", "pc", "job"} /\ c.mode = "created" /\ c.pc = "idle"
      BY DEF ++, Returned
    <3> HIDE DEF c
    <3> QED BY <2>1, <3>1, <3>2
  <2>2. CASE proc[p].job.call # "create"
    <3> DEFINE c == [pos |-> 1] ++ [pc |-> "copy"]
    <3>1. Becomes(p, c)
      BY <2>2 DEF Header
    <3>2. DOMAIN c = {"pos", "pc"} /\ c.pc = "copy"
      BY DEF ++
    <3> HIDE DEF c
    <3> QED BY <2>2, <3>1, <3>2
  <2> QED BY <2>1, <2>2
<1>3. DOMAIN c \subseteq Fields \ {"reader", "out", "locked"}
  BY <1>2 DEF Fields
<1> DEFINE x == c ++ proc[p]
<1>4. /\ x.pc = c.pc /\ x.mode = IF "mode" \in DOMAIN c THEN c.mode ELSE proc[p].mode
      /\ x.reader = proc[p].reader /\ x.out = proc[p].out /\ x.locked = proc[p].locked
  BY <1>2, <1>3, Places
<1> HIDE DEF x
<1>5. Stage(x)
  BY <1>1, <1>2, <1>4 DEF Stage
<1>6. Purpose(p, x)
  BY <1>1, <1>2, <1>4 DEF Purpose
<1>7. Writes(p, Appended(p, Magic)) /\ file' = Appended(p, Magic) /\ name' = name
  BY <1>1, WritesOwn DEF Header, Appended
<1> QED BY <1>2, <1>3, <1>5, <1>6, <1>7, MoveOn DEF x

\* A rewrite goes on: the loop, or what follows it.
LEMMA GoesOn ==
    ASSUME WInv, NEW p \in Process, NEW c, Becomes(p, c),
           DOMAIN c \subseteq {"pos", "wcat", "job", "pc", "finalised"},
           proc[p].pc \in {"copy", "finalise"}, proc[p].mode # "created",
           "pc" \in DOMAIN c => c.pc \in {"copy", "finalise", "remove_tmp"},
           name' = name, NEW items, Writes(p, items), file' = items \/ file' = Reclaimed(items)
    PROVE  WInv' /\ Kept
<1>1. DOMAIN c \subseteq Fields \ {"reader", "out", "locked"}
  BY DEF Fields
<1> DEFINE x == c ++ proc[p]
<1>2. /\ x.pc \in {"copy", "finalise", "remove_tmp"} /\ x.mode = proc[p].mode
      /\ x.reader = proc[p].reader /\ x.out = proc[p].out /\ x.locked = proc[p].locked
  BY <1>1, Places
<1> HIDE DEF x
<1>3. proc[p].mode = "opened" /\ proc[p].out \in Inode /\ proc[p].locked
  BY Place DEF Stage, Purpose
<1>4. Stage(x)
  BY <1>2, <1>3 DEF Stage
<1>5. Purpose(p, x)
  BY <1>2, <1>3 DEF Purpose
<1> QED BY <1>1, <1>4, <1>5, MoveOn DEF x

\* A process that copies has its writer's lock, and an open archive.
LEMMA Copies ==
    ASSUME WInv, NEW p \in Process, proc[p].pc = "copy"
    PROVE  /\ proc[p].mode = "opened" /\ proc[p].locked
           /\ \A items : Writes(p, [file EXCEPT ![proc[p].out] = items])
BY Place, WritesOwn DEF Stage, Purpose

\* The loop over the files.
LEMMA Loops ==
    ASSUME WInv, NEW p \in Process, NEW f \in Path, Omit(p, f) \/ CopyFile(p, f) \/ CopyFails(p, f)
    PROVE  WInv' /\ Kept
<1>1. proc[p].pc = "copy" /\ name' = name
  BY DEF Omit, CopyFile, CopyFails, Copying, At
<1>2. CASE Omit(p, f)
  <2>1. DOMAIN Taken(p, f) = {"job"}
    BY DEF Taken
  <2> QED BY <1>1, <1>2, <2>1, Copies, GoesOn, WritesOwn DEF Omit
<1>3. CASE CopyFile(p, f)
  <2> DEFINE g == Emitted(proc[p].job, f)
             d == proc[p].rcat[f].content
             at == proc[p].pos + 1
             c == [pos |-> at, wcat |-> [proc[p].wcat EXCEPT ![g] = NewEntry(d, at)]] ++ Taken(p, f)
  <2>1. Becomes(p, c) /\ file' = Appended(p, Data(d))
    BY <1>3 DEF CopyFile, WriterAdds
  <2>2. DOMAIN c = {"pos", "wcat", "job"}
    BY DEF ++, Taken
  <2> HIDE DEF c, d
  <2>3. Writes(p, Appended(p, Data(d)))
    BY <1>1, Copies DEF Appended
  <2> QED BY <1>1, <2>1, <2>2, <2>3, Copies, GoesOn
<1>4. CASE CopyFails(p, f)
  <2> DEFINE c == [pc |-> "remove_tmp"]
  <2>1. Becomes(p, c) /\ file' = file
    BY <1>4 DEF CopyFails
  <2>2. DOMAIN c = {"pc"} /\ c.pc = "remove_tmp"
    OBVIOUS
  <2> HIDE DEF c
  <2> QED BY <1>1, <2>1, <2>2, Copies, GoesOn, WritesOwn
<1> QED BY <1>2, <1>3, <1>4

\* The change itself: the archive that is being created is left for the next
\* call, a rewrite is finalised.
LEMMA ChangeStep ==
    ASSUME WInv, NEW p \in Process, AtChange(p),
           NEW r, DOMAIN r \subseteq {"pos", "wcat"}, Becomes(p, r ++ Changed(p)),
           name' = name, NEW items, Writes(p, items), file' = items
    PROVE  WInv' /\ Kept
<1> DEFINE c == r ++ Changed(p)
<1>1. CASE proc[p].mode = "created"
  <2>1. proc[p].pc = "change" /\ proc[p].out \in Inode /\ proc[p].locked
    BY <1>1, Place DEF AtChange, At, Stage
  <2>2. DOMAIN c \subseteq Fields \ {"reader", "out", "locked"} /\ "mode" \notin DOMAIN c
        /\ "pc" \in DOMAIN c /\ c.pc = "idle"
    BY <1>1 DEF ++, Changed, Returned, Fields
  <2>3. Becomes(p, c)
    OBVIOUS
  <2> HIDE DEF c
  <2> DEFINE x == c ++ proc[p]
  <2>4. /\ x.pc = "idle" /\ x.mode = "created" /\ x.reader = proc[p].reader
        /\ x.out = proc[p].out /\ x.locked = proc[p].locked
    BY <1>1, <2>2, Places
  <2> HIDE DEF x
  <2>5. Stage(x) /\ Purpose(p, x)
    BY <1>1, <2>1, <2>4, Place DEF Stage, Purpose
  <2> QED BY <2>2, <2>3, <2>5, MoveOn DEF x
<1>2. CASE proc[p].mode # "created"
  <2>1. proc[p].pc = "copy"
    BY <1>2, Place DEF AtChange, At, Stage
  <2>2. DOMAIN c \subseteq {"pos", "wcat", "pc"} /\ c.pc = "finalise"
    BY <1>2 DEF ++, Changed
  <2>3. Becomes(p, c)
    OBVIOUS
  <2> HIDE DEF c
  <2> QED BY <1>2, <2>1, <2>2, <2>3, GoesOn
<1> QED BY <1>1, <1>2

\* At the change the process has its writer's lock.
LEMMA ChangesOwn ==
    ASSUME WInv, NEW p \in Process, AtChange(p)
    PROVE  /\ \A items : Writes(p, [file EXCEPT ![proc[p].out] = items])
           /\ proc[p].job.call # "add" => proc[p].pc = "copy"
<1>1. proc[p].locked
  BY Place DEF AtChange, At, Stage
<1>2. proc[p].job.call # "add" => proc[p].pc = "copy"
  BY Place DEF AtChange, At, Stage
<1> QED BY <1>1, <1>2, WritesOwn

\* The change, and the soft delete of a file that was not copied.
LEMMA ChangesKeep ==
    ASSUME WInv, NEW p \in Process,
           AddChange(p) \/ SoftDeleteChange(p) \/ SoftDeleteFails(p) \/ NoChange(p)
    PROVE  WInv' /\ Kept
<1>1. AtChange(p) /\ name' = name
  BY DEF AddChange, SoftDeleteChange, SoftDeleteFails, SoftDelete, NoChange
<1>2. CASE AddChange(p)
  <2> DEFINE f == proc[p].job.path
             d == proc[p].job.content
             at == proc[p].pos + 1
             r == [pos |-> at, wcat |-> [proc[p].wcat EXCEPT ![f] = NewEntry(d, at)]]
  <2>1. Becomes(p, r ++ Changed(p)) /\ file' = Appended(p, Data(d))
    BY <1>2 DEF AddChange, WriterAdds
  <2>2. DOMAIN r = {"pos", "wcat"}
    OBVIOUS
  <2> HIDE DEF r, d
  <2>3. Writes(p, Appended(p, Data(d)))
    BY <1>1, ChangesOwn DEF Appended
  <2> QED BY <1>1, <2>1, <2>2, <2>3, ChangeStep
<1>3. CASE SoftDeleteChange(p)
  <2> DEFINE f == proc[p].job.path
             at == proc[p].wcat[f].at
             r == [wcat |-> [proc[p].wcat EXCEPT ![f].deleted = TRUE]]
             items == [file EXCEPT ![proc[p].out] = Put(@, at, Data(proc[p].wcat[f].content))]
  <2>1. Becomes(p, r ++ Changed(p)) /\ file' = items
    BY <1>3 DEF SoftDeleteChange
  <2>2. DOMAIN r = {"wcat"}
    OBVIOUS
  <2>3. Writes(p, items)
    BY <1>1, ChangesOwn
  <2> HIDE DEF r, items
  <2> QED BY <1>1, <2>1, <2>2, <2>3, ChangeStep
<1>4. CASE SoftDeleteFails(p)
  <2> DEFINE c == [pc |-> "remove_tmp"]
  <2>1. Becomes(p, c) /\ file' = file /\ proc[p].job.call = "delete"
    BY <1>4 DEF SoftDeleteFails, SoftDelete
  <2>2. DOMAIN c = {"pc"} /\ c.pc = "remove_tmp"
    OBVIOUS
  <2> HIDE DEF c
  <2>3. proc[p].pc = "copy"
    BY <1>1, <2>1, ChangesOwn
  <2> QED BY <1>1, <2>1, <2>2, <2>3, Copies, GoesOn, WritesOwn
<1>5. CASE NoChange(p)
  <2> DEFINE c == [pc |-> "finalise"]
  <2>1. proc[p].job.call # "add" /\ file' = file
    BY <1>5 DEF NoChange
  <2>2. proc[p].pc = "copy" /\ proc[p].mode = "opened"
    BY <1>1, <2>1, ChangesOwn, Copies
  <2>3. Becomes(p, c) /\ DOMAIN c = {"pc"} /\ c.pc = "finalise"
    BY <1>5, <2>2 DEF NoChange, Changed
  <2> HIDE DEF c
  <2> QED BY <1>1, <2>1, <2>2, <2>3, GoesOn, WritesOwn
<1> QED BY <1>2, <1>3, <1>4, <1>5

\* The end of a rewrite: each step lets go of something, and of no lock but
\* its own.
LEMMA Ends ==
    ASSUME WInv, NEW p \in Process, Finalise(p) \/ DropReader(p) \/ Rename(p) \/ RenameFails(p)
    PROVE  WInv' /\ Kept
<1>1. CASE Finalise(p)
  <2> DEFINE items == Appended(p, End(proc[p].wcat))
  <2>1. proc[p].pc = "finalise" /\ name' = name /\ file' = Reclaimed(items)
    BY <1>1 DEF Finalise, At
  <2>2. proc[p].locked /\ proc[p].mode \in {"opened", "created"}
    BY <2>1, Place DEF Stage, Purpose
  <2>3. Writes(p, items)
    BY <2>2, WritesOwn DEF Appended
  <2>4. CASE proc[p].mode = "created"
    <3>1. Becomes(p, Closed)
      BY <1>1, <2>4 DEF Finalise
    <3> QED BY <2>1, <2>3, <3>1, CloseStep
  <2>5. CASE proc[p].mode = "opened"
    <3>1. Becomes(p, [pc |-> "drop_reader"] ++ Released)
      BY <1>1, <2>5 DEF Finalise
    <3> QED BY <2>1, <2>3, <2>5, <3>1, ReleaseStep
  <2> QED BY <2>2, <2>4, <2>5
<1>2. CASE DropReader(p)
  <2> DEFINE c == [pc |-> "rename", reader |-> None]
             x == c ++ proc[p]
  <2>1. proc[p].pc = "drop_reader" /\ proc' = [proc EXCEPT ![p] = x]
        /\ name' = name /\ file' = Reclaimed(file)
    BY <1>2 DEF DropReader, Becomes, At
  <2>2. DOMAIN c \subseteq Fields /\ DOMAIN c = {"pc", "reader"} /\ c.pc = "rename" /\ c.reader = None
    BY DEF Fields
  <2> HIDE DEF c
  <2>3. DOMAIN x = Fields /\ \A f \in Fields : x[f] = IF f \in DOMAIN c THEN c[f] ELSE proc[p][f]
    BY <2>2, Object
  <2> HIDE DEF x
  <2>4. /\ x.pc = "rename" /\ x.reader = None /\ x.mode = proc[p].mode
        /\ x.out = proc[p].out /\ x.locked = proc[p].locked
    BY <2>2, <2>3 DEF Fields
  <2>5. proc[p].mode = "opened" /\ proc[p].out = None /\ proc[p].locked = FALSE
    BY <2>1, Place DEF WInv, ProcsOK, ObjectOK, Stage, Purpose
  <2>6. Stage(x) /\ Purpose(p, x)
    BY <2>4, <2>5 DEF Stage, Purpose
  <2>7. Local(p, x)
    BY <2>3, <2>4, <2>5, <2>6 DEF Local, ObjectOK
  <2> QED BY <2>1, <2>7, LocalStep, WritesOwn
<1> DEFINE AtRename(c) == /\ Becomes(p, c) /\ DOMAIN c \subseteq {"pc", "job", "rcat"}
                          /\ "pc" \in DOMAIN c /\ c.pc \in {"idle", "reopen"}
<1>3. ASSUME NEW c, AtRename(c), proc[p].pc = "rename"
      PROVE  proc' = [proc EXCEPT ![p] = c ++ proc[p]] /\ Local(p, c ++ proc[p])
  <2>1. DOMAIN c \subseteq Fields \ {"reader", "out", "locked"}
    BY <1>3 DEF Fields
  <2> DEFINE x == c ++ proc[p]
  <2>2. /\ x.pc \in {"idle", "reopen"} /\ x.mode = proc[p].mode /\ x.reader = proc[p].reader
        /\ x.out = proc[p].out /\ x.locked = proc[p].locked
    BY <1>3, <2>1, Places
  <2> HIDE DEF x
  <2>3. Stage(x) /\ Purpose(p, x)
    BY <1>3, <2>2, Place DEF Stage, Purpose
  <2>4. Local(p, c ++ proc[p])
    BY <2>1, <2>3, ToStep DEF x
  <2> QED BY <1>3, <2>4 DEF Becomes
<1>4. CASE Rename(p)
  <2> DEFINE c == [pc |-> "reopen"]
  <2>1. AtRename(c)
    BY <1>4 DEF Rename
  <2> HIDE DEF c
  <2>2. Local(p, c ++ proc[p]) /\ proc' = [proc EXCEPT ![p] = c ++ proc[p]]
    BY <1>3, <1>4, <2>1 DEF Rename, At
  <2> QED BY <1>4, <2>2, RenameStep DEF Rename
<1>5. CASE RenameFails(p)
  <2> DEFINE c == Returned ++ [rcat |-> EmptyCatalog]
  <2>1. AtRename(c)
    BY <1>5 DEF RenameFails, ++, Returned
  <2> HIDE DEF c
  <2>2. Local(p, c ++ proc[p]) /\ proc' = [proc EXCEPT ![p] = c ++ proc[p]]
    BY <1>3, <1>5, <2>1 DEF RenameFails, At
  <2> QED BY <1>5, <2>2, LocalStep, WritesOwn DEF RenameFails
<1> QED BY <1>1, <1>2, <1>4, <1>5

\* The cleanup of a rewrite that failed.
LEMMA Cleans ==
    ASSUME WInv, NEW p \in Process, RemoveTmp(p) \/ Destroy(p)
    PROVE  WInv' /\ Kept
<1>1. CASE RemoveTmp(p)
  <2> DEFINE c == [pc |-> "destroy"]
             x == c ++ proc[p]
  <2>1. /\ proc[p].pc = "remove_tmp" /\ Becomes(p, c) /\ file' = Reclaimed(file)
        /\ name' = [name EXCEPT !["tmp"] = None]
    BY <1>1 DEF RemoveTmp, At
  <2>2. DOMAIN c \subseteq Fields \ {"reader", "out", "locked"} /\ DOMAIN c = {"pc"} /\ c.pc = "destroy"
    BY DEF Fields
  <2> HIDE DEF c
  <2>3. /\ x.pc = "destroy" /\ x.mode = proc[p].mode /\ x.reader = proc[p].reader
        /\ x.out = proc[p].out /\ x.locked = proc[p].locked
    BY <2>2, Places
  <2> HIDE DEF x
  <2>4. Stage(x) /\ Purpose(p, x)
    BY <2>1, <2>3, Place DEF Stage, Purpose
  <2> QED BY <2>1, <2>2, <2>4, MoveOn, WritesOwn DEF x
<1>2. CASE Destroy(p)
  <2> DEFINE items == IF proc[p].finalised THEN file ELSE Appended(p, End(proc[p].wcat))
  <2>1. proc[p].pc = "destroy"
    BY <1>2 DEF Destroy, At
  <2>2. proc[p].locked /\ proc[p].mode = "opened"
    BY <2>1, Place DEF Stage, Purpose
  <2>3. Writes(p, items)
    BY <2>2, WritesOwn DEF Appended
  <2>4. Becomes(p, Returned ++ Released) /\ name' = name /\ file' = Reclaimed(items)
    BY <1>2 DEF Destroy
  <2> HIDE DEF items
  <2> QED BY <2>2, <2>3, <2>4, ReleaseStep
<1> QED BY <1>1, <1>2

\* A failure of the file system, and a kill: handles and locks only go.
LEMMA FailsKeep ==
    ASSUME WInv, NEW p \in Process, Fails(p)
    PROVE  WInv' /\ Kept
<1>1. file' = Reclaimed(file) /\ Writes(p, file)
  BY WritesOwn DEF Fails
<1>2. CASE HeaderFails(p)
  <2>1. proc[p].mode # "created"
    BY <1>2, Place DEF HeaderFails, At, Stage
  <2> QED BY <1>1, <1>2, <2>1, ReleaseStep DEF HeaderFails
<1>3. CASE PageFails(p)
  <2>1. proc[p].pc = "copy" \/ AtChange(p)
    BY <1>3 DEF PageFails, SoftDelete, Copying, At
  <2>2. CASE proc[p].mode = "created"
    <3>1. proc[p].pc = "change" /\ proc[p].out \in Inode /\ proc[p].locked
      BY <2>1, <2>2, Place DEF AtChange, At, Stage
    <3> DEFINE x == Returned ++ proc[p]
    <3>2. DOMAIN Returned \subseteq Fields \ {"reader", "out", "locked"}
          /\ DOMAIN Returned = {"pc", "job"} /\ Returned.pc = "idle"
      BY DEF Returned, Fields
    <3>3. /\ x.pc = "idle" /\ x.mode = "created" /\ x.reader = proc[p].reader
          /\ x.out = proc[p].out /\ x.locked = proc[p].locked
      BY <2>2, <3>2, Places
    <3> HIDE DEF x
    <3>4. Stage(x) /\ Purpose(p, x)
      BY <2>2, <3>1, <3>3, Place DEF Stage, Purpose
    <3>5. Becomes(p, Returned) /\ name' = name
      BY <1>3, <2>2 DEF PageFails
    <3> QED BY <1>1, <3>2, <3>4, <3>5, MoveOn DEF x
  <2>3. CASE proc[p].mode # "created"
    <3> DEFINE c == [pc |-> "remove_tmp"]
    <3>1. proc[p].pc = "copy"
      BY <2>1, <2>3, Place DEF AtChange, At, Stage
    <3>2. Becomes(p, c) /\ DOMAIN c = {"pc"} /\ c.pc = "remove_tmp" /\ name' = name
      BY <1>3, <2>3 DEF PageFails
    <3> HIDE DEF c
    <3> QED BY <1>1, <2>3, <3>1, <3>2, GoesOn
  <2> QED BY <2>2, <2>3
<1>4. CASE FinaliseFails(p)
  <2>1. proc[p].pc = "finalise" /\ name' = name
    BY <1>4 DEF FinaliseFails, At
  <2>2. CASE proc[p].mode = "created"
    BY <1>1, <1>4, <2>1, <2>2, CloseStep DEF FinaliseFails
  <2>3. CASE proc[p].mode # "created"
    <3> DEFINE c == [pc |-> "remove_tmp", finalised |-> TRUE]
    <3>1. Becomes(p, c) /\ DOMAIN c = {"pc", "finalised"} /\ c.pc = "remove_tmp"
      BY <1>4, <2>3 DEF FinaliseFails
    <3> HIDE DEF c
    <3> QED BY <1>1, <2>1, <2>3, <3>1, GoesOn
  <2> QED BY <2>2, <2>3
<1>5. CASE RenameBreaks(p)
  <2> DEFINE c == Returned ++ [rcat |-> EmptyCatalog]
             x == c ++ proc[p]
  <2>1. proc[p].pc = "rename" /\ Becomes(p, c) /\ name' = name
    BY <1>5 DEF RenameBreaks, At
  <2>2. DOMAIN c \subseteq Fields \ {"reader", "out", "locked"}
        /\ DOMAIN c = {"pc", "job", "rcat"} /\ c.pc = "idle"
    BY DEF ++, Returned, Fields
  <2> HIDE DEF c
  <2>3. /\ x.pc = "idle" /\ x.mode = proc[p].mode /\ x.reader = proc[p].reader
        /\ x.out = proc[p].out /\ x.locked = proc[p].locked
    BY <2>2, Places
  <2> HIDE DEF x
  <2>4. Stage(x) /\ Purpose(p, x)
    BY <2>1, <2>3, Place DEF Stage, Purpose
  <2> QED BY <1>1, <2>1, <2>2, <2>4, MoveOn DEF x
<1>6. CASE ReopenBreaks(p) \/ Kill(p)
  BY <1>1, <1>6, CloseStep DEF ReopenBreaks, Kill
<1> QED BY <1>2, <1>3, <1>4, <1>5, <1>6 DEF Fails

-----------------------------------------------------------------------------
(* The theorems.                                                            *)

\* Initially nobody has the archive open.
LEMMA WInit == Init => WInv
<1> SUFFICES ASSUME Init PROVE WInv
  OBVIOUS
<1>1. 1 \in Inode
  BY Inodes
<1>2. DOMAIN Closed = Fields
  BY DEF Closed, Fields
<1>3. Closed.mode = "closed" /\ Closed.pc = "idle" /\ Closed.reader = None
      /\ Closed.out = None /\ Closed.locked = FALSE
  BY DEF Closed
<1> HIDE DEF Closed
<1>4. \A p \in Process : ObjectOK(p, Closed)
  BY <1>2, <1>3 DEF ObjectOK, Stage, Purpose
<1>5. ProcsOK
  BY <1>4 DEF Init, ProcsOK
<1>6. NamesOK
  BY <1>1, <1>3, Inodes DEF Init, NamesOK
<1>7. WriterExcludesReaders
  BY <1>3 DEF Init, WriterExcludesReaders
<1> QED BY <1>5, <1>6, <1>7 DEF Init, WInv

\* Every step keeps the invariant and the archives that are open.
LEMMA WNext == WInv /\ [Next]_vars => WInv' /\ (Kept \/ UNCHANGED vars)
<1> SUFFICES ASSUME WInv, [Next]_vars PROVE WInv' /\ (Kept \/ UNCHANGED vars)
  OBVIOUS
<1>1. CASE UNCHANGED vars
  BY <1>1 DEF vars, WInv, ProcsOK, NamesOK, WriterExcludesReaders
<1>2. CASE Next
  <2>1. PICK p \in Process : Calls(p) \/ Step(p) \/ Fails(p)
    BY <1>2 DEF Next
  <2>2. CASE Calls(p) \/ ReopenFails(p) \/ \E f \in Path : CopyDies(p, f)
    BY <2>2, CallsKeep
  <2>3. CASE OpenOut(p)
    BY <2>3, OpensOut
  <2>4. CASE LockOut(p) \/ LockFails(p)
    BY <2>4, Locks
  <2>5. CASE Header(p)
    BY <2>5, Headers
  <2>6. CASE \E f \in Path : Omit(p, f) \/ CopyFile(p, f) \/ CopyFails(p, f)
    BY <2>6, Loops
  <2>7. CASE AddChange(p) \/ SoftDeleteChange(p) \/ SoftDeleteFails(p) \/ NoChange(p)
    BY <2>7, ChangesKeep
  <2>8. CASE Finalise(p) \/ DropReader(p) \/ Rename(p) \/ RenameFails(p)
    BY <2>8, Ends
  <2>9. CASE Reopen(p)
    BY <2>9, Opens
  <2>10. CASE RemoveTmp(p) \/ Destroy(p)
    BY <2>10, Cleans
  <2>11. CASE Fails(p)
    BY <2>11, FailsKeep
  <2> QED BY <2>1, <2>2, <2>3, <2>4, <2>5, <2>6, <2>7, <2>8, <2>9, <2>10, <2>11 DEF Step
<1> QED BY <1>1, <1>2

\* The tried-once record locks do their work for any number of processes: no
\* file has two writers, and none is written while another process reads it.
THEOREM WritersExcludeReaders == Spec => []WriterExcludesReaders
<1>1. WInv => WriterExcludesReaders
  BY DEF WInv
<1>2. WInv /\ [Next]_vars => WInv'
  BY WNext
<1> QED BY <1>1, <1>2, WInit, PTL DEF Spec

\* What a process has mapped stays as it is, whatever others rewrite, fail and
\* are killed at; only a creator truncates it, before it asks for the lock.
THEOREM OpenArchivesKept == Spec => OpenArchiveUnmodified
<1>1. WInv /\ [Next]_vars => WInv'
  BY WNext
<1>2. WInv /\ [Next]_vars => [Kept]_vars
  BY WNext
<1>3. Spec => [][Kept]_vars
  BY <1>1, <1>2, WInit, PTL DEF Spec
<1> QED BY <1>3 DEF OpenArchiveUnmodified, Kept

-----------------------------------------------------------------------------
(* The invariant.                                                           *)

Entry == [content : Content, deleted : BOOLEAN, at : Nat \ {0}]
Catalog == [Path -> Entry \cup {None}]
Item == {Magic, Zero} \cup [kind : {"data"}, content : Content]
                      \cup [kind : {"end"}, catalog : Catalog]

\* A finished archive, every file of which can be read.
Readable(items) ==
  /\ Complete(items)
  /\ CatalogOf(items) \in Catalog
  /\ \A f \in Listed(CatalogOf(items)) : Extractable(items, CatalogOf(items)[f])

\* The calls that rewrite.
JobOK(job) ==
  /\ {"left", "call", "path"} \subseteq DOMAIN job
  /\ job.path \in Path
  /\ \/ job.call = "add" /\ "content" \in DOMAIN job /\ job.content \in Content
     \/ job.call = "delete" /\ "soft" \in DOMAIN job /\ job.soft \in BOOLEAN
     \/ job.call = "rename" /\ "to" \in DOMAIN job /\ job.to \in Path

\* A catalog that is what the call has to make of the old one.
New(p, cat) ==
  /\ Live(cat) = Expected(p)
  /\ (proc[p].job.call = "delete" /\ proc[p].job.soft) => proc[p].job.path \in Listed(cat)

\* The files that have been copied to path g, when those of D are done.
Sources(job, D, g) == {f \in D : ~Omitted(job, f) /\ Emitted(job, f) = g}

\* A new catalog wcat has of each path the last file copied to it.
CopiedOf(old, job, D, cat) ==
  \A g \in Path :
    LET S == Sources(job, D, g)
    IN  IF S = {} THEN cat[g] = None
        ELSE /\ cat[g] # None /\ ~cat[g].deleted
             /\ \E f \in S : (\A h \in S : h <= f) /\ cat[g].content = old[f].content

CopyOK(x) ==
  LET D == LiveFiles(x.rcat) \ x.job.left
  IN  /\ x.job.left \subseteq LiveFiles(x.rcat)
      /\ \A f \in D, g \in x.job.left : f < g
      /\ CopiedOf(x.rcat, x.job, D, x.wcat)

\* The file of the writer has what its catalog says, and no more.
Written(items, pos, cat) ==
  /\ pos >= 1 /\ Len(items) = pos /\ items[1] = Magic
  /\ \A f \in Listed(cat) : Extractable(items, cat[f]) 

InRewrite == {"open_out", "lock_out", "header", "copy", "finalise", "remove_tmp",
              "destroy", "drop_reader"}
HasTmp == {"lock_out", "header", "copy", "finalise", "remove_tmp", "drop_reader", "rename"}

\* One process, which creates no archive.
Single(p) == Process = {p} /\ Creator = {}

\* The data the single process p works on.
DataOK(p) ==
  /\ \A i \in Inode : file[i] \in Seq(Item)
  /\ proc[p].mode # "created"
  /\ proc[p].rcat \in Catalog /\ proc[p].wcat \in Catalog /\ proc[p].pos \in Nat
  /\ proc[p].out = None => proc[p].pos = 0 /\ proc[p].wcat = EmptyCatalog

\* The archive under the path, and what the reader knows of it.
OldOK(p) ==
  LET items == file[name["archive"]]
  IN  /\ Readable(items)
      /\ proc[p].reader # None =>
           proc[p].reader = name["archive"] /\ proc[p].rcat = CatalogOf(items)
      /\ proc[p].pc \in InRewrite => proc[p].reader # None
      /\ proc[p].pc \in {"rename", "reopen"} => proc[p].reader = None
      /\ proc[p].pc = "rename" => proc[p].rcat = CatalogOf(items)
      /\ proc[p].pc = "reopen" => New(p, CatalogOf(items))
      /\ proc[p].pc \in InRewrite \cup {"rename", "reopen"} => JobOK(proc[p].job)

\* The archive that is being made.
NewOK(p) ==
  /\ proc[p].pc \in {"lock_out", "header", "copy", "finalise"} => proc[p].out = name["tmp"]
  /\ proc[p].pc \in {"open_out", "lock_out", "header"} =>
       proc[p].job.left = LiveFiles(proc[p].rcat)
  /\ proc[p].pc \in {"lock_out", "header"} =>
       /\ file[proc[p].out] = <<>> /\ proc[p].pos = 0 /\ proc[p].wcat = EmptyCatalog
  /\ proc[p].pc \in {"copy", "finalise"} =>
       Written(file[proc[p].out], proc[p].pos, proc[p].wcat)
  /\ proc[p].pc = "copy" => CopyOK(proc[p])
  /\ proc[p].pc = "finalise" => New(p, proc[p].wcat)
  /\ proc[p].pc \in {"drop_reader", "rename"} =>
       /\ name["tmp"] # None
       /\ Readable(file[name["tmp"]]) /\ New(p, CatalogOf(file[name["tmp"]]))

\* Without a failure, there is a temporary file during the rewrite only.
TmpOK(p) ==
  /\ faults \in Nat
  /\ (faults = 0 /\ proc[p].pc \notin HasTmp) => name["tmp"] = None

AloneOK(p) == DataOK(p) /\ OldOK(p) /\ NewOK(p) /\ TmpOK(p)


-----------------------------------------------------------------------------
(* Files and catalogs.                                                      *)

\* Items are put into a file behind its end or in the place of others.
LEMMA PutItem ==
    ASSUME NEW items \in Seq(Item), NEW at \in 1 .. Len(items) + 1, NEW x \in Item
    PROVE  LET new == Put(items, at, x)
           IN  /\ new \in Seq(Item)
               /\ Len(new) = Larger(at, Len(items))
               /\ new[at] = x
               /\ \A i \in 1 .. Len(items) : i # at => new[i] = items[i]
<1> DEFINE n == Larger(at, Len(items))
           new == Put(items, at, x)
<1>1. Len(items) \in Nat /\ \A i \in 1 .. Len(items) : items[i] \in Item
  BY LenProperties, ElementOfSeq
<1>2. n \in Nat /\ at \in 1 .. n /\ Len(items) <= n /\ n <= Len(items) + 1
  BY <1>1 DEF Larger
<1>3. DOMAIN new = 1 .. n /\ new = [i \in 1 .. n |-> new[i]]
  BY DEF Put
<1>4. \A i \in 1 .. n : new[i] = IF i = at THEN x ELSE IF i <= Len(items) THEN items[i] ELSE Zero
  BY DEF Put
<1>5. Zero \in Item
  BY DEF Item
<1> HIDE DEF new, n
<1>6. \A i \in 1 .. n : new[i] \in Item
  BY <1>1, <1>2, <1>4, <1>5
<1>7. new \in Seq(Item) /\ Len(new) = n
  <2>1. new \in [1 .. n -> Item]
    BY <1>3, <1>6
  <2>2. new \in Seq(Item)
    BY <1>2, <2>1
  <2> QED BY <1>2, <1>3, <2>2, LenProperties
<1>8. new[at] = x /\ \A i \in 1 .. Len(items) : i # at => new[i] = items[i]
  BY <1>1, <1>2, <1>4
<1> QED BY <1>7, <1>8 DEF new, n

\* Wherever an item is put, the file has items.
LEMMA PutAnywhere ==
    ASSUME NEW items \in Seq(Item), NEW at \in Nat \ {0}, NEW x \in Item
    PROVE  Put(items, at, x) \in Seq(Item)
<1> DEFINE n == Larger(at, Len(items))
           new == Put(items, at, x)
<1>1. Len(items) \in Nat /\ \A i \in 1 .. Len(items) : items[i] \in Item
  BY LenProperties, ElementOfSeq
<1>2. n \in Nat
  BY <1>1 DEF Larger
<1>3. new = [i \in 1 .. n |-> IF i = at THEN x ELSE IF i <= Len(items) THEN items[i] ELSE Zero]
  BY DEF Put
<1>4. Zero \in Item
  BY DEF Item
<1> HIDE DEF new, n
<1>5. new \in [1 .. n -> Item]
  BY <1>1, <1>2, <1>3, <1>4
<1>6. new \in Seq(Item)
  BY <1>2, <1>5
<1> QED BY <1>6 DEF new

\* The items that are written.
LEMMA Items ==
    /\ Magic \in Item /\ Zero \in Item
    /\ \A c \in Content : Data(c) \in Item
    /\ \A cat \in Catalog : End(cat) \in Item /\ End(cat).kind = "end" /\ End(cat).catalog = cat
BY DEF Item, Magic, Zero, Data, End

\* Entries, and what a catalog has of them.
LEMMA Entries ==
    /\ None \notin Entry /\ None \notin Content
    /\ \A c \in Content, at \in Nat \ {0} :
         /\ NewEntry(c, at) \in Entry /\ NewEntry(c, at).content = c
         /\ NewEntry(c, at).at = at /\ NewEntry(c, at).deleted = FALSE
    /\ \A cat \in Catalog, f \in Path : cat[f] # None => cat[f] \in Entry
    /\ EmptyCatalog \in Catalog /\ \A f \in Path : EmptyCatalog[f] = None
<1>1. None \notin Entry /\ None \notin Content
  <2>1. Entry \subseteq [content : Content, deleted : BOOLEAN, at : Nat]
    BY DEF Entry
  <2> QED BY <2>1, NoneAssumption DEF NoneAssumption
<1>2. \A c \in Content, at \in Nat \ {0} :
         /\ NewEntry(c, at) \in Entry /\ NewEntry(c, at).content = c
         /\ NewEntry(c, at).at = at /\ NewEntry(c, at).deleted = FALSE
  BY DEF NewEntry, Entry
<1>3. \A cat \in Catalog, f \in Path : cat[f] # None => cat[f] \in Entry
  BY DEF Catalog
<1>4. EmptyCatalog \in Catalog /\ \A f \in Path : EmptyCatalog[f] = None
  BY DEF EmptyCatalog, Catalog
<1> QED BY <1>1, <1>2, <1>3, <1>4

\* The live files of a catalog, path by path.
LEMMA LiveOf ==
    ASSUME NEW cat
    PROVE  /\ \A f \in Path : f \in LiveFiles(cat) <=> (cat[f] # None /\ ~cat[f].deleted)
           /\ LiveFiles(cat) \subseteq Path
           /\ DOMAIN Live(cat) = Path /\ Live(cat) = [f \in Path |-> Live(cat)[f]]
           /\ \A f \in Path :
                Live(cat)[f] = IF f \in LiveFiles(cat) THEN cat[f].content ELSE None
BY DEF LiveFiles, Listed, Live

\* An appended item leaves what is written, and what the catalog lists.
LEMMA AppendItem ==
    ASSUME NEW items \in Seq(Item), NEW pos \in Nat, NEW cat \in Catalog,
           Written(items, pos, cat), NEW x \in Item
    PROVE  LET new == Put(items, pos + 1, x)
           IN  /\ new \in Seq(Item) /\ Written(new, pos + 1, cat)
               /\ new[pos + 1] = x
<1> DEFINE new == Put(items, pos + 1, x)
<1>1. Len(items) = pos /\ pos >= 1
  BY DEF Written
<1>2. /\ new \in Seq(Item) /\ Len(new) = pos + 1 /\ new[pos + 1] = x
      /\ \A i \in 1 .. pos : new[i] = items[i]
  <2>1. pos + 1 \in 1 .. Len(items) + 1 /\ Larger(pos + 1, Len(items)) = pos + 1
    BY <1>1 DEF Larger
  <2>2. /\ new \in Seq(Item) /\ Len(new) = Larger(pos + 1, Len(items)) /\ new[pos + 1] = x
        /\ \A i \in 1 .. Len(items) : i # pos + 1 => new[i] = items[i]
    BY <2>1, PutItem
  <2> QED BY <1>1, <2>1, <2>2
<1> HIDE DEF new
<1>3. ASSUME NEW f \in Listed(cat) PROVE Extractable(new, cat[f])
  <2>1. cat[f] \in Entry /\ Extractable(items, cat[f])
    BY Entries DEF Listed, Written
  <2>2. cat[f].at \in 1 .. pos
    BY <1>1, <2>1 DEF Entry, Extractable
  <2> QED BY <1>1, <1>2, <2>1, <2>2 DEF Extractable
<1>4. Written(new, pos + 1, cat)
  BY <1>1, <1>2, <1>3 DEF Written
<1> QED BY <1>2, <1>4 DEF new

\* The entry of the page that was appended is added to the catalog.
LEMMA WrittenAdds ==
    ASSUME NEW items, NEW pos \in Nat, NEW cat \in Catalog, Written(items, pos + 1, cat),
           NEW g \in Path, NEW c \in Content, items[pos + 1] = Data(c)
    PROVE  Written(items, pos + 1, [cat EXCEPT ![g] = NewEntry(c, pos + 1)])
<1> DEFINE new == [cat EXCEPT ![g] = NewEntry(c, pos + 1)]
<1>1. \A h \in Path : new[h] = IF h = g THEN NewEntry(c, pos + 1) ELSE cat[h]
  BY DEF Catalog
<1>2. NewEntry(c, pos + 1).content = c /\ NewEntry(c, pos + 1).at = pos + 1
  BY DEF NewEntry
<1> HIDE DEF new
<1>3. Len(items) = pos + 1
  BY DEF Written
<1>4. ASSUME NEW h \in Listed(new) PROVE Extractable(items, new[h])
  <2>1. CASE h = g
    BY <1>1, <1>2, <1>3, <2>1 DEF Extractable, Listed
  <2>2. CASE h # g
    BY <1>1, <2>2 DEF Listed, Written
  <2> QED BY <2>1, <2>2
<1> QED BY <1>4 DEF Written, new

\* The entry of a file that is flagged has the same page.
LEMMA WrittenFlags ==
    ASSUME NEW items, NEW pos \in Nat, NEW cat \in Catalog, Written(items, pos, cat),
           NEW f \in Listed(cat)
    PROVE  Written(items, pos, [cat EXCEPT ![f].deleted = TRUE])
<1> DEFINE e == [cat[f] EXCEPT !.deleted = TRUE]
           new == [cat EXCEPT ![f].deleted = TRUE]
<1>1. f \in Path /\ cat[f] # None /\ cat[f] \in Entry
  BY Entries DEF Listed
<1>2. e.at = cat[f].at /\ e.content = cat[f].content
  BY <1>1 DEF Entry
<1>3. \A h \in Path : new[h] = IF h = f THEN e ELSE cat[h]
  BY <1>1 DEF Catalog
<1> HIDE DEF new, e
<1>4. ASSUME NEW h \in Listed(new) PROVE Extractable(items, new[h])
  <2>1. CASE h = f
    BY <1>1, <1>2, <1>3, <2>1 DEF Extractable, Written
  <2>2. CASE h # f
    BY <1>3, <2>2 DEF Listed, Written
  <2> QED BY <2>1, <2>2
<1> QED BY <1>4 DEF Written, new

\* An item that is put in the place of an equal one changes nothing.
LEMMA PutSame ==
    ASSUME NEW items \in Seq(Item), NEW at \in Nat \ {0}, at <= Len(items),
           NEW x \in Item, items[at] = x
    PROVE  Put(items, at, x) = items
<1> DEFINE new == Put(items, at, x)
<1>1. Len(items) \in Nat /\ items = [i \in 1 .. Len(items) |-> items[i]]
  BY LenProperties
<1>2. at \in 1 .. Len(items) + 1 /\ Larger(at, Len(items)) = Len(items)
  BY <1>1 DEF Larger
<1>3. /\ new \in Seq(Item) /\ Len(new) = Len(items) /\ new[at] = x
      /\ \A i \in 1 .. Len(items) : i # at => new[i] = items[i]
  BY <1>2, PutItem
<1> HIDE DEF new
<1>4. \A i \in 1 .. Len(items) : new[i] = items[i]
  BY <1>3
<1>5. new = [i \in 1 .. Len(items) |-> new[i]]
  BY <1>3, LenProperties
<1> QED BY <1>1, <1>4, <1>5 DEF new

\* The catalog makes an archive of what is written.
LEMMA FinishArchive ==
    ASSUME NEW items \in Seq(Item), NEW pos \in Nat, NEW cat \in Catalog,
           Written(items, pos, cat)
    PROVE  LET new == Put(items, pos + 1, End(cat))
           IN  new \in Seq(Item) /\ Readable(new) /\ CatalogOf(new) = cat
<1> DEFINE new == Put(items, pos + 1, End(cat))
<1>1. new \in Seq(Item) /\ Written(new, pos + 1, cat) /\ new[pos + 1] = End(cat)
  BY Items, AppendItem
<1> HIDE DEF new
<1>2. pos >= 1 /\ Len(new) = pos + 1 /\ new[1] = Magic
  BY <1>1 DEF Written
<1>3. Complete(new) /\ CatalogOf(new) = cat
  BY <1>1, <1>2, Items DEF Complete, CatalogOf
<1>4. Readable(new)
  BY <1>1, <1>3 DEF Readable, Written
<1> QED BY <1>1, <1>3, <1>4 DEF new

-----------------------------------------------------------------------------
(* The loop over the files.                                                 *)

\* Taking a file from those that are left changes nothing else of a job.
LEMMA JobTakes ==
    ASSUME NEW job, JobOK(job), NEW L
    PROVE  LET j == [job EXCEPT !.left = L]
           IN  /\ JobOK(j) /\ j.left = L
               /\ \A f : /\ Omitted(j, f) <=> Omitted(job, f)
                         /\ Emitted(j, f) = Emitted(job, f)
<1> DEFINE j == [job EXCEPT !.left = L]
<1>1. DOMAIN j = DOMAIN job /\ j.left = L
  BY DEF JobOK
<1>2. \A x \in DOMAIN job : x # "left" => j[x] = job[x]
  OBVIOUS
<1> HIDE DEF j
<1>3. /\ j.call = job.call /\ j.path = job.path
      /\ job.call = "add" => j.content = job.content
      /\ job.call = "delete" => j.soft = job.soft
      /\ job.call = "rename" => j.to = job.to
  BY <1>2 DEF JobOK
<1>4. JobOK(j)
  BY <1>1, <1>3 DEF JobOK
<1>5. \A f : (Omitted(j, f) <=> Omitted(job, f)) /\ Emitted(j, f) = Emitted(job, f)
  BY <1>3 DEF Omitted, Emitted
<1> QED BY <1>1, <1>4, <1>5 DEF j

\* The next file f of the loop comes behind all that are done.
LEMMA NextFile ==
    ASSUME NEW old, NEW job, JobOK(job), job.left \subseteq LiveFiles(old),
           \A a \in LiveFiles(old) \ job.left, b \in job.left : a < b,
           NEW f \in job.left, \A g \in job.left : f <= g
    PROVE  LET j == [job EXCEPT !.left = @ \ {f}]
               D == LiveFiles(old) \ job.left
           IN  /\ JobOK(j) /\ j.left \subseteq LiveFiles(old)
               /\ LiveFiles(old) \ j.left = D \cup {f}
               /\ \A a \in LiveFiles(old) \ j.left, b \in j.left : a < b
               /\ \A a \in D : a < f
<1> DEFINE j == [job EXCEPT !.left = @ \ {f}]
           D == LiveFiles(old) \ job.left
<1>1. JobOK(j) /\ j.left = job.left \ {f}
  BY JobTakes
<1> HIDE DEF j
<1>2. LiveFiles(old) \subseteq Nat
  BY LiveOf, RewritePathAssumption DEF RewritePathAssumption
<1>3. \A b \in j.left : f < b
  <2> SUFFICES ASSUME NEW b \in j.left PROVE f < b
    OBVIOUS
  <2>1. b \in job.left /\ b # f /\ f <= b /\ f \in Nat /\ b \in Nat
    BY <1>1, <1>2
  <2> QED BY <2>1
<1>4. LiveFiles(old) \ j.left = D \cup {f}
  BY <1>1
<1>5. \A a \in LiveFiles(old) \ j.left, b \in j.left : a < b
  BY <1>1, <1>3, <1>4
<1> QED BY <1>1, <1>4, <1>5 DEF j

\* A file that is copied becomes the last one copied to its path.
LEMMA CopyOne ==
    ASSUME NEW old \in Catalog, NEW job, NEW j, NEW D \in SUBSET Nat, NEW cat \in Catalog,
           CopiedOf(old, job, D, cat), NEW f \in Path, \A a \in D : a < f,
           \A h : (Omitted(j, h) <=> Omitted(job, h)) /\ Emitted(j, h) = Emitted(job, h),
           Emitted(job, f) \in Path, old[f] \in Entry, NEW at \in Nat \ {0}
    PROVE  LET g == Emitted(job, f)
               new == [cat EXCEPT ![g] = NewEntry(old[f].content, at)]
           IN  /\ ~Omitted(job, f) => new \in Catalog /\ CopiedOf(old, j, D \cup {f}, new)
               /\ Omitted(job, f) => CopiedOf(old, j, D \cup {f}, cat)
<1> DEFINE g == Emitted(job, f)
           new == [cat EXCEPT ![g] = NewEntry(old[f].content, at)]
<1>1. old[f].content \in Content
  BY DEF Entry
<1>2. /\ NewEntry(old[f].content, at) \in Entry
      /\ NewEntry(old[f].content, at).content = old[f].content
      /\ NewEntry(old[f].content, at).deleted = FALSE
      /\ NewEntry(old[f].content, at) # None
  BY <1>1, Entries
<1>3. \A h \in Path : Sources(j, D \cup {f}, h) =
         IF ~Omitted(job, f) /\ g = h THEN Sources(job, D, h) \cup {f} ELSE Sources(job, D, h)
  <2> SUFFICES ASSUME NEW h \in Path
               PROVE  \A e : e \in Sources(j, D \cup {f}, h) <=>
                        e \in IF ~Omitted(job, f) /\ g = h THEN Sources(job, D, h) \cup {f}
                              ELSE Sources(job, D, h)
    OBVIOUS
  <2> QED BY DEF Sources
<1>4. \A h \in Path : Sources(job, D, h) \subseteq D
  BY DEF Sources
<1>5. CASE ~Omitted(job, f)
  <2>1. new \in Catalog /\ \A h \in Path : new[h] = IF h = g THEN NewEntry(old[f].content, at) ELSE cat[h]
    BY <1>2 DEF Catalog
  <2> HIDE DEF new
  <2>2. ASSUME NEW h \in Path
        PROVE  LET S == Sources(j, D \cup {f}, h)
               IN  IF S = {} THEN new[h] = None
                   ELSE /\ new[h] # None /\ ~new[h].deleted
                        /\ \E e \in S : (\A k \in S : k <= e) /\ new[h].content = old[e].content
    <3>1. CASE h = g
      <4>1. Sources(j, D \cup {f}, h) = Sources(job, D, h) \cup {f}
        BY <1>3, <1>5, <3>1
      <4>2. \A k \in Sources(job, D, h) \cup {f} : k <= f
        <5>1. f \in Nat /\ \A k \in D : k \in Nat /\ k < f
          BY RewritePathAssumption DEF RewritePathAssumption
        <5>2. \A k \in Sources(job, D, h) : k \in D
          BY <1>4
        <5> SUFFICES ASSUME NEW k, k \in Sources(job, D, h) \/ k = f PROVE k <= f
          OBVIOUS
        <5>3. k = f \/ (k \in Nat /\ k < f)
          BY <5>1, <5>2
        <5> QED BY <5>1, <5>3
      <4> QED BY <1>2, <2>1, <3>1, <4>1, <4>2
    <3>2. CASE h # g
      <4>1. Sources(j, D \cup {f}, h) = Sources(job, D, h) /\ new[h] = cat[h]
        BY <1>3, <2>1, <3>2
      <4> QED BY <4>1 DEF CopiedOf
    <3> QED BY <3>1, <3>2
  <2> QED BY <1>5, <2>1, <2>2 DEF CopiedOf, new
<1>6. CASE Omitted(job, f)
  <2>1. \A h \in Path : Sources(j, D \cup {f}, h) = Sources(job, D, h)
    BY <1>3, <1>6
  <2> QED BY <1>6, <2>1 DEF CopiedOf
<1> QED BY <1>5, <1>6

\* The loop is over: what the new catalog has of each path.
LEMMA AllCopied ==
    ASSUME NEW old \in Catalog, NEW job, NEW cat \in Catalog,
           CopiedOf(old, job, LiveFiles(old), cat), NEW g \in Path
    PROVE  LET S == Sources(job, LiveFiles(old), g)
           IN  /\ S \subseteq LiveFiles(old)
               /\ g \in Listed(cat) <=> S # {}
               /\ g \in LiveFiles(cat) <=> S # {}
               /\ S = {} => Live(cat)[g] = None
               /\ S # {} => \E f \in S : (\A h \in S : h <= f) /\ Live(cat)[g] = Live(old)[f]
<1> DEFINE S == Sources(job, LiveFiles(old), g)
<1>1. S \subseteq LiveFiles(old)
  BY DEF Sources
<1>2. CASE S = {}
  <2>1. cat[g] = None
    BY <1>2 DEF CopiedOf
  <2>2. g \notin Listed(cat) /\ g \notin LiveFiles(cat)
    BY <2>1 DEF Listed, LiveFiles
  <2> QED BY <1>2, <1>1, <2>2, LiveOf
<1>3. CASE S # {}
  <2>1. /\ cat[g] # None /\ ~cat[g].deleted
        /\ \E f \in S : (\A h \in S : h <= f) /\ cat[g].content = old[f].content
    BY <1>3 DEF CopiedOf
  <2>2. g \in Listed(cat) /\ g \in LiveFiles(cat)
    BY <2>1 DEF Listed, LiveFiles
  <2>3. Live(cat)[g] = cat[g].content
    BY <2>2, LiveOf
  <2>4. \A f \in S : Live(old)[f] = old[f].content
    BY <1>1, LiveOf
  <2> QED BY <1>1, <1>3, <2>1, <2>2, <2>3, <2>4
<1> QED BY <1>2, <1>3

\* A call that renames nothing copies each file to its own path.
LEMMA SameCopied ==
    ASSUME NEW old \in Catalog, NEW job, job.call # "rename", NEW cat \in Catalog,
           CopiedOf(old, job, LiveFiles(old), cat), NEW g \in Path
    PROVE  /\ Omitted(job, g) => Live(cat)[g] = None
           /\ ~Omitted(job, g) => /\ Live(cat)[g] = Live(old)[g]
                                  /\ g \in Listed(cat) <=> g \in LiveFiles(old)
<1> DEFINE S == Sources(job, LiveFiles(old), g)
<1>1. \A f \in S : f = g /\ ~Omitted(job, g) /\ g \in LiveFiles(old)
  BY DEF Sources, Emitted
<1>2. (~Omitted(job, g) /\ g \in LiveFiles(old)) => g \in S
  BY DEF Sources, Emitted
<1>3. /\ g \in Listed(cat) <=> S # {}
      /\ S = {} => Live(cat)[g] = None
      /\ S # {} => \E f \in S : Live(cat)[g] = Live(old)[f]
  BY AllCopied
<1>4. g \notin LiveFiles(old) => Live(old)[g] = None
  BY LiveOf
<1> HIDE DEF S
<1> QED BY <1>1, <1>2, <1>3, <1>4

\* The contents of a catalog's live files are contents.
LEMMA LiveContent ==
    ASSUME NEW cat \in Catalog, NEW f \in Path
    PROVE  f \in LiveFiles(cat) <=> Live(cat)[f] # None
<1>1. f \in LiveFiles(cat) => cat[f].content # None
  BY LiveOf, Entries DEF Entry
<1> QED BY <1>1, LiveOf

\* A hard delete leaves its file out.
LEMMA DeletedNew ==
    ASSUME NEW p, JobOK(proc[p].job), proc[p].job.call = "delete", ~proc[p].job.soft,
           proc[p].rcat \in Catalog, NEW cat \in Catalog,
           CopiedOf(proc[p].rcat, proc[p].job, LiveFiles(proc[p].rcat), cat)
    PROVE  New(p, cat)
<1> DEFINE job == proc[p].job
           old == proc[p].rcat
<1>1. Expected(p) = [Live(old) EXCEPT ![job.path] = None]
  BY DEF Expected, Outcome
<1>2. job.path \in Path /\ \A g \in Path : Omitted(job, g) <=> g = job.path
  BY DEF JobOK, Omitted
<1> HIDE DEF job, old
<1>3. \A g \in Path : Live(cat)[g] = IF g = job.path THEN None ELSE Live(old)[g]
  BY <1>2, SameCopied DEF job, old
<1>4. Live(cat) = Expected(p)
  BY <1>1, <1>2, <1>3, LiveOf
<1> QED BY <1>4 DEF New

\* A soft delete copies its file, and then sets its flag.
LEMMA FlaggedNew ==
    ASSUME NEW p, JobOK(proc[p].job), proc[p].job.call = "delete", proc[p].job.soft,
           proc[p].rcat \in Catalog, NEW cat \in Catalog,
           CopiedOf(proc[p].rcat, proc[p].job, LiveFiles(proc[p].rcat), cat),
           proc[p].job.path \in Listed(cat)
    PROVE  LET new == [cat EXCEPT ![proc[p].job.path].deleted = TRUE]
           IN  new \in Catalog /\ Listed(new) = Listed(cat) /\ New(p, new)
<1> DEFINE job == proc[p].job
           old == proc[p].rcat
           f == job.path
           new == [cat EXCEPT ![f].deleted = TRUE]
<1>1. Expected(p) = [Live(old) EXCEPT ![f] = None]
  BY DEF Expected, Outcome
<1>2. f \in Path /\ job.call # "rename" /\ \A g \in Path : ~Omitted(job, g)
  BY DEF JobOK, Omitted
<1>3. \A g \in Path : Live(cat)[g] = Live(old)[g]
  BY <1>2, SameCopied
<1>4. cat[f] # None /\ cat[f] \in Entry
  BY <1>2, Entries DEF Listed
<1> HIDE DEF job, old, f
<1> DEFINE e == [cat[f] EXCEPT !.deleted = TRUE]
<1>5. e \in Entry /\ e.deleted = TRUE /\ e # None
  <2>1. e \in Entry /\ e.deleted = TRUE
    BY <1>4 DEF Entry
  <2> HIDE DEF e
  <2> QED BY <2>1, Entries
<1>6. new \in Catalog /\ \A g \in Path : new[g] = IF g = f THEN e ELSE cat[g]
  BY <1>2, <1>5 DEF Catalog
<1> HIDE DEF new, e
<1>7. Listed(new) = Listed(cat)
  BY <1>4, <1>5, <1>6 DEF Listed
<1>8. \A g \in Path : g \in LiveFiles(new) <=> g # f /\ g \in LiveFiles(cat)
  BY <1>5, <1>6, LiveOf
<1>9. \A g \in Path : Live(new)[g] = IF g = f THEN None ELSE Live(old)[g]
  BY <1>3, <1>6, <1>8, LiveOf
<1>10. Live(new) = Expected(p)
  BY <1>1, <1>9, LiveOf
<1>11. f \in Listed(new)
  BY <1>7 DEF f, job
<1> QED BY <1>6, <1>7, <1>10, <1>11 DEF New, f, job, new

\* A file that is added comes in addition to the old ones, or in place of one.
LEMMA AddedNew ==
    ASSUME NEW p, JobOK(proc[p].job), proc[p].job.call = "add",
           proc[p].rcat \in Catalog, NEW cat \in Catalog,
           CopiedOf(proc[p].rcat, proc[p].job, LiveFiles(proc[p].rcat), cat),
           NEW at \in Nat \ {0}
    PROVE  LET new == [cat EXCEPT ![proc[p].job.path] = NewEntry(proc[p].job.content, at)]
           IN  new \in Catalog /\ New(p, new)
<1> DEFINE job == proc[p].job
           old == proc[p].rcat
           f == job.path
           e == NewEntry(job.content, at)
           new == [cat EXCEPT ![f] = e]
<1>1. Expected(p) = [Live(old) EXCEPT ![f] = job.content]
  BY DEF Expected, Outcome
<1>2. f \in Path /\ job.call # "rename" /\ \A g \in Path : ~Omitted(job, g)
  BY DEF JobOK, Omitted
<1>3. \A g \in Path : Live(cat)[g] = Live(old)[g]
  BY <1>2, SameCopied
<1>4. e \in Entry /\ e.content = job.content /\ e.deleted = FALSE /\ e # None
  BY Entries DEF JobOK
<1> HIDE DEF job, old, f, e
<1>5. new \in Catalog /\ \A g \in Path : new[g] = IF g = f THEN e ELSE cat[g]
  BY <1>2, <1>4 DEF Catalog
<1> HIDE DEF new
<1>6. \A g \in Path : g \in LiveFiles(new) <=> g = f \/ g \in LiveFiles(cat)
  BY <1>4, <1>5, LiveOf
<1>7. \A g \in Path : Live(new)[g] = IF g = f THEN job.content ELSE Live(old)[g]
  BY <1>3, <1>4, <1>5, <1>6, LiveOf
<1>8. Live(new) = Expected(p)
  BY <1>1, <1>7, LiveOf
<1>9. proc[p].job.call # "delete"
  OBVIOUS
<1> QED BY <1>5, <1>8, <1>9 DEF New, f, e, job, new

\* A file that is renamed to the path of another one leaves the later of them.
LEMMA RenamedNew ==
    ASSUME NEW p, JobOK(proc[p].job), proc[p].job.call = "rename",
           proc[p].rcat \in Catalog, NEW cat \in Catalog,
           CopiedOf(proc[p].rcat, proc[p].job, LiveFiles(proc[p].rcat), cat)
    PROVE  New(p, cat)
<1> DEFINE job == proc[p].job
           old == proc[p].rcat
           a == job.path
           b == job.to
           L == Live(old)
           left == {L[a], L[b]} \ {None}
           moved == IF a < b THEN L[b] ELSE L[a]
           value == IF left = {} THEN None
                    ELSE IF Cardinality(left) = 1 THEN CHOOSE c \in left : TRUE
                    ELSE moved
<1>1. Expected(p) = [[L EXCEPT ![a] = None] EXCEPT ![b] = value]
  BY DEF Expected, Outcome
<1>2. /\ a \in Path /\ b \in Path /\ a \in Nat /\ b \in Nat
      /\ \A f \in Path : ~Omitted(job, f) /\ Emitted(job, f) = IF f = a THEN b ELSE f
  BY RewritePathAssumption DEF JobOK, Omitted, Emitted, RewritePathAssumption
<1>3. \A g \in Path : Sources(job, LiveFiles(old), g) =
         {f \in LiveFiles(old) : g = IF f = a THEN b ELSE f}
  <2>1. LiveFiles(old) \subseteq Path
    BY LiveOf
  <2> QED BY <1>2, <2>1 DEF Sources
<1> DEFINE S(g) == {f \in LiveFiles(old) : g = IF f = a THEN b ELSE f}
<1>4. \A g \in Path :
        /\ S(g) = {} => Live(cat)[g] = None
        /\ S(g) # {} => \E f \in S(g) : (\A h \in S(g) : h <= f) /\ Live(cat)[g] = L[f]
  BY <1>3, AllCopied
<1>5. \A f \in Path : f \in LiveFiles(old) <=> L[f] # None
  BY LiveContent
<1>6. /\ \A c : Cardinality({c}) = 1
      /\ \A c, d : c # d => Cardinality({c, d}) # 1
  <2>1. \A c : IsFiniteSet({c}) /\ Cardinality({c}) = 1
    BY FS_Singleton
  <2>2. ASSUME NEW c, NEW d, c # d PROVE Cardinality({c, d}) # 1
    <3>1. Cardinality({c} \cup {d}) = 2
      <4> DEFINE T == {c}
      <4>1. IsFiniteSet(T) /\ Cardinality(T) = 1 /\ d \notin T
        BY <2>1, <2>2
      <4> HIDE DEF T
      <4>2. Cardinality(T \cup {d}) = IF d \in T THEN Cardinality(T) ELSE Cardinality(T) + 1
        BY <4>1, FS_AddElement, Zenon
      <4>3. Cardinality(T \cup {d}) = 2
        BY <4>1, <4>2
      <4> QED BY <4>3 DEF T
    <3>2. {c, d} = {c} \cup {d}
      OBVIOUS
    <3> QED BY <3>1, <3>2
  <2> QED BY <2>1, <2>2
<1>7. ASSUME NEW g \in Path, g # b PROVE Live(cat)[g] = IF g = a THEN None ELSE L[g]
  <2>1. \A f \in S(g) : f = g /\ f # a
    BY <1>7
  <2>2. g # a /\ g \in LiveFiles(old) => g \in S(g)
    OBVIOUS
  <2> HIDE DEF S, L, a
  <2>3. CASE S(g) = {}
    BY <1>4, <1>5, <2>2, <2>3
  <2>4. CASE S(g) # {}
    BY <1>4, <2>1, <2>4
  <2> QED BY <2>3, <2>4
<1>8. Live(cat)[b] = value
  <2>1. \A f : f \in S(b) <=> f \in LiveFiles(old) /\ f \in {a, b}
    OBVIOUS
  <2> HIDE DEF S, L, a, b
  <2>2. CASE a \notin LiveFiles(old) /\ b \notin LiveFiles(old)
    BY <1>2, <1>4, <1>5, <2>1, <2>2
  <2>3. CASE a \in LiveFiles(old) /\ (b \notin LiveFiles(old) \/ L[a] = L[b])
    <3>1. left = {L[a]}
      BY <1>2, <1>5, <2>3
    <3>2. value = L[a]
      BY <1>6, <3>1
    <3>3. S(b) # {} /\ \A f \in S(b) : L[f] = L[a]
      BY <2>1, <2>3
    <3> QED BY <1>2, <1>4, <3>2, <3>3
  <2>4. CASE a \notin LiveFiles(old) /\ b \in LiveFiles(old)
    <3>1. left = {L[b]}
      BY <1>2, <1>5, <2>4
    <3>2. value = L[b]
      BY <1>6, <3>1
    <3>3. S(b) # {} /\ \A f \in S(b) : L[f] = L[b]
      BY <2>1, <2>4
    <3> QED BY <1>2, <1>4, <3>2, <3>3
  <2>5. CASE a \in LiveFiles(old) /\ b \in LiveFiles(old) /\ L[a] # L[b]
    <3>1. left = {L[a], L[b]}
      BY <1>2, <1>5, <2>5
    <3>2. value = moved
      BY <1>6, <2>5, <3>1
    <3>3. PICK f \in S(b) : (\A h \in S(b) : h <= f) /\ Live(cat)[b] = L[f]
      BY <1>2, <1>4, <2>1, <2>5
    <3>4. f \in {a, b} /\ a <= f /\ b <= f
      BY <2>1, <2>5, <3>3
    <3>5. f = IF a < b THEN b ELSE a
      BY <1>2, <3>4
    <3> QED BY <3>2, <3>3, <3>5
  <2> QED BY <2>2, <2>3, <2>4, <2>5
<1> HIDE DEF job, old, a, b, L, value
<1>9. DOMAIN L = Path /\ L = [f \in Path |-> L[f]]
  BY LiveOf DEF L
<1>10. Expected(p) = [g \in Path |-> IF g = b THEN value ELSE IF g = a THEN None ELSE L[g]]
  BY <1>1, <1>2, <1>9
<1>11. Live(cat) = [g \in Path |-> IF g = b THEN value ELSE IF g = a THEN None ELSE L[g]]
  BY <1>7, <1>8, LiveOf
<1>12. proc[p].job.call # "delete"
  OBVIOUS
<1> QED BY <1>10, <1>11, <1>12 DEF New

-----------------------------------------------------------------------------
(* Steps of the process.                                                    *)

\* The object after a change, field by field.
LEMMA After ==
    ASSUME NEW p, Single(p), WInv, NEW c, DOMAIN c \subseteq Fields, Becomes(p, c)
    PROVE  /\ proc'[p].mode = IF "mode" \in DOMAIN c THEN c.mode ELSE proc[p].mode
           /\ proc'[p].pc = IF "pc" \in DOMAIN c THEN c.pc ELSE proc[p].pc
           /\ proc'[p].job = IF "job" \in DOMAIN c THEN c.job ELSE proc[p].job
           /\ proc'[p].reader = IF "reader" \in DOMAIN c THEN c.reader ELSE proc[p].reader
           /\ proc'[p].rcat = IF "rcat" \in DOMAIN c THEN c.rcat ELSE proc[p].rcat
           /\ proc'[p].out = IF "out" \in DOMAIN c THEN c.out ELSE proc[p].out
           /\ proc'[p].pos = IF "pos" \in DOMAIN c THEN c.pos ELSE proc[p].pos
           /\ proc'[p].wcat = IF "wcat" \in DOMAIN c THEN c.wcat ELSE proc[p].wcat
<1>1. p \in Process /\ DOMAIN proc = Process
  BY DEF Single, WInv, ProcsOK
<1>2. proc'[p] = c ++ proc[p]
  BY <1>1 DEF Becomes
<1>3. \A f \in Fields : proc'[p][f] = IF f \in DOMAIN c THEN c[f] ELSE proc[p][f]
  BY <1>1, <1>2, Object
<1> QED BY <1>3 DEF Fields

\* The files that are still in use after a step.
LEMMA FilesAfter ==
    ASSUME NEW p, Single(p), WInv', NEW items, DOMAIN items = Inode,
           file' = items \/ file' = Reclaimed(items)
    PROVE  /\ \A i \in Inode : file'[i] \in {items[i], <<>>}
           /\ file'[name'["archive"]] = items[name'["archive"]]
           /\ name'["tmp"] # None => file'[name'["tmp"]] = items[name'["tmp"]]
           /\ proc'[p].out # None => file'[proc'[p].out] = items[proc'[p].out]
<1>1. /\ name'["archive"] \in Inode /\ name'["tmp"] \in Inode \cup {None}
      /\ proc'[p].out \in Inode \cup {None}
  <2>1. ObjectOK(p, proc'[p])
    BY DEF Single, WInv, ProcsOK
  <2>2. proc'[p].out \in Inode \cup {None}
    BY <2>1 DEF ObjectOK, Stage
  <2> QED BY <2>2 DEF WInv, NamesOK
<1>2. name'["archive"] \in InUse' /\ name'["tmp"] \in InUse' /\ proc'[p].out \in InUse'
  <2>1. proc'[p].out \in {proc'[q].out : q \in Process}
    BY DEF Single
  <2> QED BY <2>1 DEF InUse
<1>3. \A i \in Inode : file'[i] \in {items[i], <<>>} /\ (i \in InUse' => file'[i] = items[i])
  BY DEF Reclaimed
<1> QED BY <1>1, <1>2, <1>3

\* The writer does not have the archive that is open.
LEMMA OutIsNew ==
    ASSUME NEW p, Single(p), WInv, AloneOK(p), proc[p].pc \in InRewrite, proc[p].out # None
    PROVE  proc[p].out # name["archive"]
BY DEF Single, WInv, ProcsOK, ObjectOK, AloneOK, OldOK

\* The archive under the path stays, and with it what the reader knows.
LEMMA OldStays ==
    ASSUME NEW p, OldOK(p), name'["archive"] = name["archive"],
           file'[name["archive"]] = file[name["archive"]],
           \/ proc'[p].reader = None
           \/ proc'[p].reader = proc[p].reader /\ proc'[p].rcat = proc[p].rcat,
           proc'[p].pc \in InRewrite => proc'[p].reader # None,
           proc'[p].pc = "rename" =>
             /\ proc[p].reader # None /\ proc'[p].rcat = proc[p].rcat
             /\ proc'[p].reader = None,
           proc'[p].pc # "reopen",
           proc'[p].pc \in InRewrite \cup {"rename"} => JobOK(proc'[p].job)
    PROVE  OldOK(p)'
<1>1. CatalogOf(file[name["archive"]])' = CatalogOf(file[name["archive"]])
  BY DEF CatalogOf
<1>2. Readable(file[name["archive"]])' <=> Readable(file[name["archive"]])
  BY DEF Readable, Complete, CatalogOf, Listed, Extractable, Data
<1> QED BY <1>1, <1>2 DEF OldOK

\* A step after which nothing is being made: the call is over, or is cleaning up.
LEMMA ToQuiet ==
    ASSUME NEW p, Single(p), WInv, WInv', AloneOK(p), name'["archive"] = name["archive"],
           NEW items, DOMAIN items = Inode, \A i \in Inode : items[i] \in Seq(Item),
           items[name["archive"]] = file[name["archive"]],
           file' = items \/ file' = Reclaimed(items),
           proc'[p].mode # "created", proc'[p].pc \in {"idle", "remove_tmp", "destroy"},
           proc'[p].reader \in {None, proc[p].reader},
           proc'[p].reader # None => proc'[p].rcat = proc[p].rcat,
           proc'[p].rcat \in Catalog, proc'[p].wcat \in Catalog, proc'[p].pos \in Nat,
           proc'[p].out = None => proc'[p].pos = 0 /\ proc'[p].wcat = EmptyCatalog,
           proc'[p].pc \in InRewrite =>
             /\ proc[p].pc \in InRewrite /\ proc'[p].reader # None /\ proc'[p].job = proc[p].job,
           faults' \in Nat,
           (faults' = 0 /\ proc'[p].pc \notin HasTmp) => name'["tmp"] = None
    PROVE  AloneOK(p)'
<1>1. /\ \A i \in Inode : file'[i] \in {items[i], <<>>}
      /\ file'[name["archive"]] = file[name["archive"]]
  BY FilesAfter
<1>2. DataOK(p)'
  <2>1. <<>> \in Seq(Item)
    BY EmptySeq
  <2>2. \A i \in Inode : file'[i] \in Seq(Item)
    BY <1>1, <2>1
  <2> QED BY <2>2 DEF DataOK, Inode, Item, Catalog, Entry, Magic, Zero, EmptyCatalog
<1>3. OldOK(p)'
  <2>1. proc'[p].pc # "rename" /\ proc'[p].pc # "reopen"
    OBVIOUS
  <2>2. OldOK(p)
    BY DEF AloneOK
  <2>3. proc'[p].pc \in InRewrite => JobOK(proc'[p].job)
    BY <2>2 DEF OldOK
  <2> QED BY <1>1, <2>1, <2>2, <2>3, OldStays
<1>4. NewOK(p)'
  BY DEF NewOK
<1>5. TmpOK(p)'
  BY DEF TmpOK
<1> QED BY <1>2, <1>3, <1>4, <1>5 DEF AloneOK

\* The object is closed, or the process is gone.
LEMMA ClosedAlone ==
    ASSUME NEW p, Single(p), WInv, WInv', AloneOK(p), Becomes(p, Closed), name' = name,
           file' = file \/ file' = Reclaimed(file), faults' \in Nat,
           faults' = 0 => faults = 0 /\ proc[p].pc \notin HasTmp
    PROVE  AloneOK(p)'
<1>1. DOMAIN Closed = Fields
  BY DEF Closed, Fields
<1>2. /\ proc'[p].mode = "closed" /\ proc'[p].pc = "idle" /\ proc'[p].reader = None
      /\ proc'[p].rcat = EmptyCatalog /\ proc'[p].out = None /\ proc'[p].pos = 0
      /\ proc'[p].wcat = EmptyCatalog
  BY <1>1, After DEF Closed, Fields
<1>3. DOMAIN file = Inode /\ \A i \in Inode : file[i] \in Seq(Item)
  BY DEF WInv, AloneOK, DataOK
<1>4. EmptyCatalog \in Catalog
  BY Entries
<1>5. (faults' = 0 /\ proc'[p].pc \notin HasTmp) => name'["tmp"] = None
  BY DEF AloneOK, TmpOK
<1>6. proc'[p].pc \notin InRewrite
  BY <1>2 DEF InRewrite
<1> QED BY <1>2, <1>3, <1>4, <1>5, <1>6, ToQuiet

\* The call returns without its writer.
LEMMA ReleasedAlone ==
    ASSUME NEW p, Single(p), WInv, WInv', AloneOK(p), Becomes(p, Returned ++ Released),
           name' = name, NEW items, DOMAIN items = Inode,
           \A i \in Inode : items[i] \in Seq(Item),
           items[name["archive"]] = file[name["archive"]], file' = Reclaimed(items),
           faults' \in Nat, faults' = 0 => faults = 0 /\ proc[p].pc \notin HasTmp
    PROVE  AloneOK(p)'
<1> DEFINE c == Returned ++ Released
<1>1. /\ DOMAIN c = {"pc", "job", "out", "locked", "pos", "wcat", "finalised"}
      /\ c.pc = "idle" /\ c.out = None /\ c.pos = 0 /\ c.wcat = EmptyCatalog
  BY DEF ++, Returned, Released
<1> HIDE DEF c
<1>2. DOMAIN c \subseteq Fields /\ Becomes(p, c)
  BY <1>1 DEF Fields, c
<1>3. /\ proc'[p].mode = proc[p].mode /\ proc'[p].pc = "idle" /\ proc'[p].reader = proc[p].reader
      /\ proc'[p].rcat = proc[p].rcat /\ proc'[p].out = None /\ proc'[p].pos = 0
      /\ proc'[p].wcat = EmptyCatalog
  <2>1. /\ proc'[p].mode = proc[p].mode /\ proc'[p].pc = c.pc /\ proc'[p].reader = proc[p].reader
        /\ proc'[p].rcat = proc[p].rcat /\ proc'[p].out = c.out /\ proc'[p].pos = c.pos
        /\ proc'[p].wcat = c.wcat
    <3>1. /\ "mode" \notin DOMAIN c /\ "pc" \in DOMAIN c /\ "reader" \notin DOMAIN c
          /\ "rcat" \notin DOMAIN c /\ "out" \in DOMAIN c /\ "pos" \in DOMAIN c
          /\ "wcat" \in DOMAIN c
      BY <1>1
    <3> QED BY <1>2, <3>1, After
  <2> QED BY <1>1, <2>1
<1>4. EmptyCatalog \in Catalog /\ proc[p].rcat \in Catalog /\ proc[p].mode # "created"
  BY Entries DEF AloneOK, DataOK
<1>5. (faults' = 0 /\ proc'[p].pc \notin HasTmp) => name'["tmp"] = None
  BY DEF AloneOK, TmpOK
<1>6. proc'[p].pc \notin InRewrite
  BY <1>3 DEF InRewrite
<1> QED BY <1>3, <1>4, <1>5, <1>6, ToQuiet

\* The call goes on with its cleanup.
LEMMA CleanupAlone ==
    ASSUME NEW p, Single(p), WInv, WInv', AloneOK(p), proc[p].pc \in InRewrite,
           proc[p].out # None, NEW c, Becomes(p, c), DOMAIN c \subseteq {"pc", "finalised"},
           "pc" \in DOMAIN c, c.pc \in {"remove_tmp", "destroy"},
           name'["archive"] = name["archive"],
           c.pc = "destroy" => name'["tmp"] = None, file' = file \/ file' = Reclaimed(file),
           faults' \in Nat
    PROVE  AloneOK(p)'
<1>1. DOMAIN c \subseteq Fields
  BY DEF Fields
<1>2. /\ proc'[p].mode = proc[p].mode /\ proc'[p].pc = c.pc /\ proc'[p].reader = proc[p].reader
      /\ proc'[p].rcat = proc[p].rcat /\ proc'[p].out = proc[p].out /\ proc'[p].pos = proc[p].pos
      /\ proc'[p].wcat = proc[p].wcat /\ proc'[p].job = proc[p].job
  BY <1>1, After
<1>3. DOMAIN file = Inode /\ \A i \in Inode : file[i] \in Seq(Item)
  BY DEF WInv, AloneOK, DataOK
<1>4. /\ proc[p].rcat \in Catalog /\ proc[p].wcat \in Catalog /\ proc[p].pos \in Nat
      /\ proc[p].mode # "created" /\ proc[p].reader # None
  BY DEF AloneOK, DataOK, OldOK
<1>5. (faults' = 0 /\ proc'[p].pc \notin HasTmp) => name'["tmp"] = None
  BY <1>2 DEF HasTmp
<1> QED BY <1>2, <1>3, <1>4, <1>5, ToQuiet

\* The call returns without having renamed its file.
LEMMA NotRenamedAlone ==
    ASSUME NEW p, Single(p), WInv, WInv', AloneOK(p), proc[p].pc = "rename",
           Becomes(p, Returned ++ [rcat |-> EmptyCatalog]), name' = name,
           file' = Reclaimed(file), faults' \in Nat, faults' # 0
    PROVE  AloneOK(p)'
<1> DEFINE c == Returned ++ [rcat |-> EmptyCatalog]
<1>1. DOMAIN c = {"pc", "job", "rcat"} /\ c.pc = "idle" /\ c.rcat = EmptyCatalog
  BY DEF ++, Returned
<1> HIDE DEF c
<1>2. DOMAIN c \subseteq Fields /\ Becomes(p, c)
  BY <1>1 DEF Fields, c
<1>3. /\ proc'[p].mode = proc[p].mode /\ proc'[p].pc = "idle" /\ proc'[p].reader = proc[p].reader
      /\ proc'[p].rcat = EmptyCatalog /\ proc'[p].out = proc[p].out /\ proc'[p].pos = proc[p].pos
      /\ proc'[p].wcat = proc[p].wcat
  BY <1>1, <1>2, After
<1>4. DOMAIN file = Inode /\ \A i \in Inode : file[i] \in Seq(Item)
  BY DEF WInv, AloneOK, DataOK
<1>5. /\ EmptyCatalog \in Catalog /\ proc[p].wcat \in Catalog /\ proc[p].pos \in Nat
      /\ proc[p].mode # "created"
      /\ proc[p].out = None => proc[p].pos = 0 /\ proc[p].wcat = EmptyCatalog
  BY Entries DEF AloneOK, DataOK
<1>6. proc'[p].reader = None
  BY <1>3 DEF AloneOK, OldOK
<1>7. proc'[p].pc \notin InRewrite
  BY <1>3 DEF InRewrite
<1> QED BY <1>3, <1>4, <1>5, <1>6, <1>7, ToQuiet

\* The archive is opened: before any call, and after a rewrite.
LEMMA OpenAlone ==
    ASSUME NEW p, Single(p), WInv, WInv', AloneOK(p), Open(p) \/ Reopen(p)
    PROVE  AloneOK(p)'
<1>1. PICK c : /\ c = Opened \/ c = Opened ++ Returned
               /\ Becomes(p, c)
  BY DEF Open, Reopen
<1>2. /\ DOMAIN c \subseteq {"mode", "reader", "rcat", "pc", "job"}
      /\ {"mode", "reader", "rcat"} \subseteq DOMAIN c /\ c.mode = "opened"
      /\ c.reader = name["archive"] /\ c.rcat = CatalogOf(file[name["archive"]])
      /\ "pc" \in DOMAIN c => c.pc = "idle"
  <2>1. /\ DOMAIN Opened = {"mode", "reader", "rcat"} /\ Opened.mode = "opened"
        /\ Opened.reader = name["archive"] /\ Opened.rcat = CatalogOf(file[name["archive"]])
    BY DEF Opened
  <2>2. /\ DOMAIN (Opened ++ Returned) = {"mode", "reader", "rcat", "pc", "job"}
        /\ (Opened ++ Returned).mode = "opened" /\ (Opened ++ Returned).pc = "idle"
        /\ (Opened ++ Returned).reader = name["archive"]
        /\ (Opened ++ Returned).rcat = CatalogOf(file[name["archive"]])
    BY <2>1 DEF ++, Returned
  <2> QED BY <1>1, <2>1, <2>2
<1>3. proc[p].pc \in {"idle", "reopen"}
  BY DEF Open, Reopen, Idle, At
<1>4. DOMAIN c \subseteq Fields
  BY <1>2 DEF Fields
<1>5. /\ file' = file /\ name' = name /\ faults' = faults
  BY DEF Open, Reopen
<1>6. /\ proc'[p].mode = "opened" /\ proc'[p].reader = name["archive"]
      /\ proc'[p].rcat = CatalogOf(file[name["archive"]])
      /\ proc'[p].pc \in {"idle", "reopen"} /\ proc'[p].out = proc[p].out
      /\ proc'[p].pos = proc[p].pos /\ proc'[p].wcat = proc[p].wcat
  BY <1>1, <1>2, <1>3, <1>4, After
<1>7. proc'[p].pc = "idle"
  <2>1. CASE Open(p)
    <3>1. proc[p].pc = "idle"
      BY <2>1 DEF Open, Idle, At
    <3> QED BY <1>1, <1>2, <1>4, <3>1, After
  <2>2. CASE Reopen(p)
    <3> DEFINE d == Opened ++ Returned
    <3>1. Becomes(p, d)
      BY <2>2 DEF Reopen
    <3>2. DOMAIN d = {"mode", "reader", "rcat", "pc", "job"} /\ d.pc = "idle"
      BY DEF ++, Returned, Opened
    <3> HIDE DEF d
    <3>3. DOMAIN d \subseteq Fields
      BY <3>2 DEF Fields
    <3> QED BY <3>1, <3>2, <3>3, After
  <2> QED BY <2>1, <2>2
<1>8. Readable(file[name["archive"]])
  BY DEF AloneOK, OldOK
<1>9. DataOK(p)'
  <2>1. CatalogOf(file[name["archive"]]) \in Catalog
    BY <1>8 DEF Readable
  <2> QED BY <1>5, <1>6, <2>1 DEF AloneOK, DataOK, Inode, Item, Catalog, Entry, Magic, Zero,
                EmptyCatalog
<1>10. OldOK(p)'
  BY <1>5, <1>6, <1>7, <1>8 DEF OldOK, Readable, Complete, CatalogOf, Listed, Extractable,
              Data, Catalog, Entry, InRewrite
<1>11. NewOK(p)'
  BY <1>7 DEF NewOK
<1>12. TmpOK(p)'
  BY <1>3, <1>5, <1>7 DEF AloneOK, TmpOK, HasTmp
<1> QED BY <1>9, <1>10, <1>11, <1>12 DEF AloneOK

\* A call that rewrites begins.
LEMMA BeginAlone ==
    ASSUME NEW p, Single(p), WInv, WInv', AloneOK(p),
           \/ \E f \in Path, c \in Content : AddFile(p, f, c)
           \/ \E f \in Path, soft \in BOOLEAN : DeleteFile(p, f, soft)
           \/ \E f \in Path, g \in Path : RenameFile(p, f, g)
    PROVE  AloneOK(p)'
<1> DEFINE l == [left |-> LiveFiles(proc[p].rcat)]
           Begun(job) == /\ Call(p, "opened", "open_out", job) /\ proc[p].reader # None
                         /\ JobOK(job) /\ job.left = LiveFiles(proc[p].rcat)
<1>1. DOMAIN l = {"left"} /\ l.left = LiveFiles(proc[p].rcat)
  OBVIOUS
<1>2. PICK job : Begun(job)
  <2>1. CASE \E f \in Path, c \in Content : AddFile(p, f, c)
    <3>1. PICK f \in Path, c \in Content : AddFile(p, f, c)
      BY <2>1
    <3> DEFINE j == [call |-> "add", path |-> f, content |-> c]
    <3>2. Call(p, "opened", "open_out", l ++ j) /\ proc[p].reader # None
      BY <3>1 DEF AddFile, Rewrite
    <3>3. DOMAIN j = {"call", "path", "content"} /\ j.call = "add" /\ j.path = f /\ j.content = c
      OBVIOUS
    <3> HIDE DEF l, j
    <3>4. /\ DOMAIN (l ++ j) = {"left", "call", "path", "content"} /\ (l ++ j).left = l.left
          /\ (l ++ j).call = "add" /\ (l ++ j).path = f /\ (l ++ j).content = c
      BY <1>1, <3>3 DEF ++
    <3> QED BY <1>1, <3>2, <3>4 DEF JobOK
  <2>2. CASE \E f \in Path, soft \in BOOLEAN : DeleteFile(p, f, soft)
    <3>1. PICK f \in Path, soft \in BOOLEAN : DeleteFile(p, f, soft)
      BY <2>2
    <3> DEFINE j == [call |-> "delete", path |-> f, soft |-> soft]
    <3>2. Call(p, "opened", "open_out", l ++ j) /\ proc[p].reader # None
      BY <3>1 DEF DeleteFile, Rewrite
    <3>3. DOMAIN j = {"call", "path", "soft"} /\ j.call = "delete" /\ j.path = f /\ j.soft = soft
      OBVIOUS
    <3> HIDE DEF l, j
    <3>4. /\ DOMAIN (l ++ j) = {"left", "call", "path", "soft"} /\ (l ++ j).left = l.left
          /\ (l ++ j).call = "delete" /\ (l ++ j).path = f /\ (l ++ j).soft = soft
      BY <1>1, <3>3 DEF ++
    <3> QED BY <1>1, <3>2, <3>4 DEF JobOK
  <2>3. CASE \E f \in Path, g \in Path : RenameFile(p, f, g)
    <3>1. PICK f \in Path, g \in Path : RenameFile(p, f, g)
      BY <2>3
    <3> DEFINE j == [call |-> "rename", path |-> f, to |-> g]
    <3>2. Call(p, "opened", "open_out", l ++ j) /\ proc[p].reader # None
      BY <3>1 DEF RenameFile, Rewrite
    <3>3. DOMAIN j = {"call", "path", "to"} /\ j.call = "rename" /\ j.path = f /\ j.to = g
      OBVIOUS
    <3> HIDE DEF l, j
    <3>4. /\ DOMAIN (l ++ j) = {"left", "call", "path", "to"} /\ (l ++ j).left = l.left
          /\ (l ++ j).call = "rename" /\ (l ++ j).path = f /\ (l ++ j).to = g
      BY <1>1, <3>3 DEF ++
    <3> QED BY <1>1, <3>2, <3>4 DEF JobOK
  <2> QED BY <2>1, <2>2, <2>3
<1> DEFINE c == [pc |-> "open_out", job |-> job]
<1>3. /\ Becomes(p, c) /\ file' = file /\ name' = name /\ faults' = faults
      /\ proc[p].pc = "idle" /\ proc[p].mode = "opened"
  BY <1>2 DEF Call, Idle, At
<1>4. DOMAIN c = {"pc", "job"} /\ c.pc = "open_out" /\ c.job = job /\ DOMAIN c \subseteq Fields
  BY DEF Fields
<1> HIDE DEF c, l
<1>5. /\ proc'[p].pc = "open_out" /\ proc'[p].job = job /\ proc'[p].mode = "opened"
      /\ proc'[p].reader = proc[p].reader /\ proc'[p].rcat = proc[p].rcat
      /\ proc'[p].out = proc[p].out /\ proc'[p].pos = proc[p].pos /\ proc'[p].wcat = proc[p].wcat
  BY <1>3, <1>4, After
<1>6. DataOK(p)'
  BY <1>3, <1>5 DEF AloneOK, DataOK, Inode, Item, Catalog, Entry, Magic, Zero, EmptyCatalog
<1>7. OldOK(p)'
  BY <1>2, <1>3, <1>5, OldStays DEF AloneOK
<1>8. NewOK(p)'
  BY <1>2, <1>5 DEF NewOK, LiveFiles, Listed
<1>9. TmpOK(p)'
  BY <1>3, <1>5 DEF AloneOK, TmpOK, HasTmp
<1> QED BY <1>6, <1>7, <1>8, <1>9 DEF AloneOK

\* The temporary file is opened, and emptied.
LEMMA OpenOutAlone ==
    ASSUME NEW p, Single(p), WInv, WInv', AloneOK(p), OpenOut(p)
    PROVE  AloneOK(p)'
<1> DEFINE n == OutName(p)
           i == IF name[n] = None THEN Fresh ELSE name[n]
           c == [pc |-> "lock_out", out |-> i]
<1>1. /\ proc[p].pc = "open_out" /\ file' = [file EXCEPT ![i] = <<>>]
      /\ name' = [name EXCEPT ![n] = i] /\ Becomes(p, c) /\ faults' = faults
  BY DEF OpenOut, At
<1>2. n = "tmp"
  <2>1. JobOK(proc[p].job)
    BY <1>1 DEF AloneOK, OldOK, InRewrite
  <2>2. proc[p].job.call # "create"
    BY <2>1 DEF JobOK
  <2> QED BY <2>2 DEF OutName
<1>3. DOMAIN c = {"pc", "out"} /\ c.pc = "lock_out" /\ c.out = i /\ DOMAIN c \subseteq Fields
  BY DEF Fields
<1> HIDE DEF c, i, n
<1>4. /\ proc'[p].pc = "lock_out" /\ proc'[p].job = proc[p].job /\ proc'[p].mode = proc[p].mode
      /\ proc'[p].reader = proc[p].reader /\ proc'[p].rcat = proc[p].rcat
      /\ proc'[p].out = i /\ proc'[p].pos = proc[p].pos /\ proc'[p].wcat = proc[p].wcat
  BY <1>1, <1>3, After
<1>5. proc[p].out = None /\ proc[p].pos = 0 /\ proc[p].wcat = EmptyCatalog
  <2>1. Stage(proc[p])
    BY Place DEF Single
  <2> QED BY <1>1, <2>1 DEF Stage, AloneOK, DataOK
<1>6. name'["tmp"] = i /\ name'["archive"] = name["archive"]
  BY <1>1, <1>2 DEF WInv, NamesOK
<1>7. i \in Inode /\ i # name["archive"] /\ name["archive"] \in Inode
  <2>1. Stage(proc'[p])
    BY DEF Single, WInv, ProcsOK, ObjectOK
  <2>2. proc'[p].out \in Inode
    BY <1>4, <2>1 DEF Stage
  <2> QED BY <1>4, <1>6, <2>2 DEF WInv, NamesOK
<1>8. \A k \in Inode : file'[k] = IF k = i THEN <<>> ELSE file[k]
  BY <1>1 DEF WInv
<1>9. DataOK(p)'
  <2>1. <<>> \in Seq(Item)
    BY EmptySeq
  <2>2. \A k \in Inode : file'[k] \in Seq(Item)
    BY <1>8, <2>1 DEF AloneOK, DataOK
  <2> QED BY <1>4, <1>5, <2>2 DEF AloneOK, DataOK, Inode, Item, Catalog, Entry, Magic, Zero,
                EmptyCatalog
<1>10. OldOK(p)'
  <2>1. OldOK(p) /\ file'[name["archive"]] = file[name["archive"]]
    BY <1>7, <1>8 DEF AloneOK
  <2>2. proc[p].reader # None /\ JobOK(proc[p].job)
    BY <1>1, <2>1 DEF OldOK, InRewrite
  <2> QED BY <1>4, <1>6, <2>1, <2>2, OldStays
<1>11. NewOK(p)'
  <2>1. proc[p].job.left = LiveFiles(proc[p].rcat)
    BY <1>1 DEF AloneOK, NewOK
  <2> QED BY <1>4, <1>5, <1>6, <1>7, <1>8, <2>1 DEF NewOK, LiveFiles, Listed, EmptyCatalog
<1>12. TmpOK(p)'
  BY <1>1, <1>4 DEF AloneOK, TmpOK, HasTmp
<1> QED BY <1>9, <1>10, <1>11, <1>12 DEF AloneOK

\* What the process has while it makes the new archive.
LEMMA Making ==
    ASSUME NEW p, Single(p), WInv, AloneOK(p),
           proc[p].pc \in {"lock_out", "header", "copy", "finalise"}
    PROVE  /\ proc[p].mode = "opened" /\ proc[p].out = name["tmp"] /\ proc[p].out \in Inode
           /\ proc[p].out # name["archive"] /\ name["archive"] \in Inode
           /\ proc[p].reader = name["archive"] /\ proc[p].reader # None
           /\ proc[p].rcat = CatalogOf(file[name["archive"]]) /\ proc[p].rcat \in Catalog
           /\ \A f \in Listed(proc[p].rcat) : Extractable(file[proc[p].reader], proc[p].rcat[f])
           /\ JobOK(proc[p].job) /\ proc[p].wcat \in Catalog /\ proc[p].pos \in Nat
           /\ DOMAIN file = Inode /\ \A i \in Inode : file[i] \in Seq(Item)
<1>1. Stage(proc[p]) /\ Purpose(p, proc[p])
  BY Place DEF Single
<1>2. DataOK(p) /\ OldOK(p) /\ NewOK(p)
  BY DEF AloneOK
<1>3. proc[p].reader # None /\ JobOK(proc[p].job)
  BY <1>2 DEF OldOK, InRewrite
<1>4. proc[p].mode = "opened"
  BY <1>1, <1>2, <1>3, Zenon DEF Stage, Purpose, DataOK, JobOK
<1>5. proc[p].out = name["tmp"] /\ proc[p].out \in Inode
  BY <1>1, <1>2 DEF Stage, NewOK
<1>6. name["archive"] \in Inode /\ proc[p].out # name["archive"]
  BY <1>5 DEF WInv, NamesOK
<1>7. /\ proc[p].reader = name["archive"] /\ proc[p].rcat = CatalogOf(file[name["archive"]])
      /\ proc[p].rcat \in Catalog
      /\ \A f \in Listed(proc[p].rcat) : Extractable(file[proc[p].reader], proc[p].rcat[f])
  BY <1>2, <1>3 DEF OldOK, Readable
<1> QED BY <1>2, <1>3, <1>4, <1>5, <1>6, <1>7 DEF DataOK, WInv

\* The lock is got: there is nobody who could have it.
LEMMA LockAlone ==
    ASSUME NEW p, Single(p), WInv, WInv', AloneOK(p), LockOut(p)
    PROVE  AloneOK(p)'
<1> DEFINE c == [pc |-> "header", locked |-> TRUE]
<1>1. /\ proc[p].pc = "lock_out" /\ file' = file /\ name' = name /\ Becomes(p, c)
      /\ faults' = faults
  BY DEF LockOut, At
<1>2. DOMAIN c = {"pc", "locked"} /\ c.pc = "header" /\ DOMAIN c \subseteq Fields
  BY DEF Fields
<1> HIDE DEF c
<1>3. /\ proc'[p].pc = "header" /\ proc'[p].job = proc[p].job /\ proc'[p].mode = proc[p].mode
      /\ proc'[p].reader = proc[p].reader /\ proc'[p].rcat = proc[p].rcat
      /\ proc'[p].out = proc[p].out /\ proc'[p].pos = proc[p].pos /\ proc'[p].wcat = proc[p].wcat
  BY <1>1, <1>2, After
<1>4. DataOK(p)'
  BY <1>1, <1>3 DEF AloneOK, DataOK, Inode, Item, Catalog, Entry, Magic, Zero, EmptyCatalog
<1>5. OldOK(p)'
  BY <1>1, <1>3, Making, OldStays DEF AloneOK
<1>6. NewOK(p)'
  BY <1>1, <1>3 DEF AloneOK, NewOK, LiveFiles, Listed, EmptyCatalog
<1>7. TmpOK(p)'
  BY <1>1, <1>3 DEF AloneOK, TmpOK, HasTmp
<1> QED BY <1>4, <1>5, <1>6, <1>7 DEF AloneOK

\* What a call has to make of the old catalog depends on nothing else.
LEMMA NewStays ==
    ASSUME NEW p, NEW cat, proc'[p].job = proc[p].job, proc'[p].rcat = proc[p].rcat
    PROVE  New(p, cat)' <=> New(p, cat)
<1>1. Expected(p)' = Expected(p)
  BY DEF Expected
<1> QED BY <1>1 DEF New

\* The new archive is finished, and waits for the rename.
LEMMA NewKept ==
    ASSUME NEW p, proc'[p].pc \in {"drop_reader", "rename"}, name' = name,
           name["tmp"] # None, Readable(file'[name["tmp"]]),
           New(p, CatalogOf(file'[name["tmp"]])),
           proc'[p].job = proc[p].job, proc'[p].rcat = proc[p].rcat
    PROVE  NewOK(p)'
<1>1. Readable(file[name["tmp"]])'
  BY DEF Readable, Complete, CatalogOf, Listed, Extractable, Data
<1>2. New(p, CatalogOf(file[name["tmp"]]))'
  <2>1. PICK k : k = CatalogOf(file'[name["tmp"]])
    OBVIOUS
  <2>2. New(p, k)'
    BY <2>1, NewStays
  <2>3. CatalogOf(file[name["tmp"]])' = k
    BY <2>1 DEF CatalogOf
  <2> QED BY <2>2, <2>3 DEF New
<1> QED BY <1>1, <1>2 DEF NewOK

\* A step that writes to the new archive, or to its catalog.
LEMMA MakeStep ==
    ASSUME NEW p, Single(p), WInv, WInv', AloneOK(p), proc[p].pc \in {"header", "copy"},
           NEW c, Becomes(p, c), DOMAIN c \subseteq {"pos", "wcat", "job", "pc"},
           name' = name, faults' = faults, NEW new \in Seq(Item),
           \A i \in Inode : file'[i] = IF i = proc[p].out THEN new ELSE file[i],
           proc'[p].pc \in {"copy", "finalise"}, JobOK(proc'[p].job),
           proc'[p].wcat \in Catalog, proc'[p].pos \in Nat,
           Written(new, proc'[p].pos, proc'[p].wcat),
           proc'[p].pc = "copy" => CopyOK(proc'[p]),
           proc'[p].pc = "finalise" => New(p, proc'[p].wcat) /\ proc'[p].job = proc[p].job
    PROVE  AloneOK(p)'
<1>1. DOMAIN c \subseteq Fields
  BY DEF Fields
<1>2. /\ proc'[p].mode = proc[p].mode /\ proc'[p].reader = proc[p].reader
      /\ proc'[p].rcat = proc[p].rcat /\ proc'[p].out = proc[p].out
  BY <1>1, After
<1>3. proc[p].out \in Inode /\ file'[proc[p].out] = new /\ file'[name["archive"]] = file[name["archive"]]
  BY Making
<1>4. DataOK(p)'
  <2>1. \A i \in Inode : file'[i] \in Seq(Item)
    BY Making
  <2>2. proc'[p].out # None /\ proc'[p].mode # "created" /\ proc'[p].rcat \in Catalog
    BY <1>2, <1>3, Inodes, Making
  <2> QED BY <2>1, <2>2 DEF DataOK, Inode, Item, Catalog, Entry, Magic, Zero, EmptyCatalog
<1>5. OldOK(p)'
  BY <1>2, <1>3, Making, OldStays DEF AloneOK
<1>6. NewOK(p)'
  <2>1. proc'[p].out = name'["tmp"]
    BY <1>2, Making
  <2>2. Written(file[proc[p].out], proc[p].pos, proc[p].wcat)'
    BY <1>2, <1>3 DEF Written, Listed, Extractable, Magic, Data
  <2>3. proc'[p].pc = "copy" => CopyOK(proc[p])'
    BY DEF CopyOK, CopiedOf, Sources, LiveFiles, Listed, Omitted, Emitted
  <2>4. proc'[p].pc = "finalise" => New(p, proc[p].wcat)'
    <3> SUFFICES ASSUME proc'[p].pc = "finalise" PROVE New(p, proc[p].wcat)'
      OBVIOUS
    <3>1. PICK w : w = proc'[p].wcat
      OBVIOUS
    <3>2. New(p, w) /\ proc'[p].job = proc[p].job
      BY <3>1
    <3>3. New(p, w)'
      BY <1>2, <3>2, NewStays
    <3> QED BY <3>1, <3>3 DEF New
  <2> QED BY <2>1, <2>2, <2>3, <2>4 DEF NewOK
<1>7. TmpOK(p)'
  BY DEF AloneOK, TmpOK, HasTmp
<1> QED BY <1>4, <1>5, <1>6, <1>7 DEF AloneOK

\* The header is written, and nothing is copied yet.
LEMMA HeaderAlone ==
    ASSUME NEW p, Single(p), WInv, WInv', AloneOK(p), Header(p)
    PROVE  AloneOK(p)'
<1> DEFINE c == [pos |-> 1] ++ [pc |-> "copy"]
           new == Put(<<>>, 1, Magic)
<1>1. proc[p].pc = "header" /\ name' = name /\ faults' = faults /\ file' = Appended(p, Magic)
  BY DEF Header, At
<1>2. /\ proc[p].job.call # "create" /\ file[proc[p].out] = <<>> /\ proc[p].pos = 0
      /\ proc[p].wcat = EmptyCatalog /\ proc[p].job.left = LiveFiles(proc[p].rcat)
  <2>1. NewOK(p)
    BY DEF AloneOK
  <2>2. proc[p].job.call # "create"
    BY <1>1, Making DEF JobOK
  <2> QED BY <1>1, <2>1, <2>2 DEF NewOK
<1>3. Becomes(p, c)
  BY <1>2 DEF Header
<1>4. DOMAIN c = {"pos", "pc"} /\ c.pos = 1 /\ c.pc = "copy"
  BY DEF ++
<1> HIDE DEF c
<1>5. /\ proc'[p].pc = "copy" /\ proc'[p].pos = 1 /\ proc'[p].wcat = EmptyCatalog
      /\ proc'[p].job = proc[p].job /\ proc'[p].rcat = proc[p].rcat
  <2>1. DOMAIN c \subseteq Fields
    BY <1>4 DEF Fields
  <2> QED BY <1>2, <1>3, <1>4, <2>1, After
<1>6. new \in Seq(Item) /\ Len(new) = 1 /\ new[1] = Magic
  <2>1. <<>> \in Seq(Item) /\ Len(<<>>) = 0
    BY EmptySeq
  <2>2. Larger(1, Len(<<>>)) = 1
    BY <2>1 DEF Larger
  <2>3. new = [i \in 1 .. 1 |-> Magic]
    BY <2>2 DEF Put
  <2>4. Magic \in Item
    BY Items
  <2> HIDE DEF new
  <2>5. new \in [1 .. 1 -> Item] /\ DOMAIN new = 1 .. 1 /\ new[1] = Magic
    BY <2>3, <2>4
  <2>6. new \in Seq(Item)
    BY <2>5
  <2> QED BY <2>5, <2>6, LenProperties
<1>7. \A i \in Inode : file'[i] = IF i = proc[p].out THEN new ELSE file[i]
  <2>1. 0 + 1 = 1
    OBVIOUS
  <2> QED BY <1>1, <1>2, <2>1 DEF Appended, WInv
<1> HIDE DEF new
<1>8. Written(new, proc'[p].pos, proc'[p].wcat)
  BY <1>5, <1>6, Entries DEF Written, Listed
<1>9. CopyOK(proc'[p])
  <2>1. proc'[p].job.left = LiveFiles(proc'[p].rcat)
    BY <1>2, <1>5
  <2>2. \A g \in Path : Sources(proc'[p].job, {}, g) = {}
    BY DEF Sources
  <2>3. CopiedOf(proc'[p].rcat, proc'[p].job, {}, proc'[p].wcat)
    BY <1>5, <2>2, Entries DEF CopiedOf
  <2>4. LiveFiles(proc'[p].rcat) \ proc'[p].job.left = {}
    BY <2>1
  <2> QED BY <2>1, <2>3, <2>4 DEF CopyOK
<1>10. JobOK(proc'[p].job) /\ proc'[p].wcat \in Catalog /\ proc'[p].pos \in Nat
  BY <1>1, <1>5, Entries, Making
<1> QED BY <1>1, <1>3, <1>4, <1>5, <1>6, <1>7, <1>8, <1>9, <1>10, MakeStep

\* What the process has while it copies.
LEMMA Copy ==
    ASSUME NEW p, Single(p), WInv, AloneOK(p), proc[p].pc = "copy"
    PROVE  /\ Written(file[proc[p].out], proc[p].pos, proc[p].wcat)
           /\ proc[p].job.left \subseteq LiveFiles(proc[p].rcat)
           /\ \A a \in LiveFiles(proc[p].rcat) \ proc[p].job.left, b \in proc[p].job.left : a < b
           /\ CopiedOf(proc[p].rcat, proc[p].job,
                       LiveFiles(proc[p].rcat) \ proc[p].job.left, proc[p].wcat)
BY DEF AloneOK, NewOK, CopyOK

\* The next file of the loop can be read.
LEMMA CanCopy ==
    ASSUME NEW p, Single(p), WInv, AloneOK(p), NEW f \in Path, Copying(p, f)
    PROVE  /\ proc[p].pc = "copy" /\ f \in proc[p].job.left
           /\ \A g \in proc[p].job.left : f <= g
           /\ Extracts(p, f) /\ ~CutOff(p, f)
           /\ proc[p].rcat[f] \in Entry /\ proc[p].rcat[f].content \in Content
<1>1. /\ proc[p].pc = "copy" /\ f \in proc[p].job.left
      /\ \A g \in proc[p].job.left : f <= g
  BY DEF Copying, At
<1>2. f \in Listed(proc[p].rcat)
  BY <1>1, Copy DEF LiveFiles
<1>3. Extractable(file[proc[p].reader], proc[p].rcat[f]) /\ proc[p].rcat \in Catalog
  BY <1>1, <1>2, Making
<1>4. proc[p].rcat[f] \in Entry
  BY <1>2, <1>3, Entries DEF Listed
<1>5. proc[p].rcat[f].content \in Content /\ proc[p].rcat[f].at \in Nat
  BY <1>4 DEF Entry
<1>6. Len(file[proc[p].reader]) \in Nat
  <2>1. proc[p].reader \in Inode /\ file[proc[p].reader] \in Seq(Item)
    BY <1>1, Making
  <2> QED BY <2>1, LenProperties
<1>7. Extracts(p, f) /\ ~CutOff(p, f)
  BY <1>3, <1>5, <1>6 DEF Extracts, CutOff, Extractable
<1> QED BY <1>1, <1>4, <1>5, <1>7

\* What the next round of the loop makes of the job and of the new catalog.
LEMMA Loop ==
    ASSUME NEW p, Single(p), WInv, AloneOK(p), NEW f \in Path, Copying(p, f),
           NEW at \in Nat \ {0}
    PROVE  LET job == proc[p].job
               j == [job EXCEPT !.left = @ \ {f}]
               g == Emitted(job, f)
               cat == [proc[p].wcat EXCEPT ![g] = NewEntry(proc[p].rcat[f].content, at)]
           IN  /\ JobOK(j) /\ g \in Path
               /\ ~Omitted(job, f) => cat \in Catalog
               /\ \A x : (/\ x.job = j /\ x.rcat = proc[p].rcat
                         /\ x.wcat = IF Omitted(job, f) THEN proc[p].wcat ELSE cat) => CopyOK(x)
<1> DEFINE job == proc[p].job
           old == proc[p].rcat
           j == [job EXCEPT !.left = @ \ {f}]
           D == LiveFiles(old) \ job.left
           g == Emitted(job, f)
           cat == [proc[p].wcat EXCEPT ![g] = NewEntry(old[f].content, at)]
<1>1. proc[p].pc = "copy" /\ f \in job.left /\ \A h \in job.left : f <= h
  BY CanCopy
<1>2. JobOK(job) /\ old \in Catalog /\ proc[p].wcat \in Catalog
  BY <1>1, Making
<1>3. /\ job.left \subseteq LiveFiles(old)
      /\ \A a \in LiveFiles(old) \ job.left, b \in job.left : a < b
      /\ CopiedOf(old, job, D, proc[p].wcat)
  BY <1>1, Copy
<1>4. g \in Path /\ old[f] \in Entry
  BY <1>2, CanCopy DEF JobOK, Emitted
<1>5. D \in SUBSET Nat
  BY LiveOf, RewritePathAssumption DEF RewritePathAssumption
<1> HIDE DEF job, old
<1>6. \A h : (Omitted(j, h) <=> Omitted(job, h)) /\ Emitted(j, h) = Emitted(job, h)
  BY <1>2, JobTakes
<1>7. /\ JobOK(j) /\ j.left \subseteq LiveFiles(old) /\ LiveFiles(old) \ j.left = D \cup {f}
      /\ \A a \in LiveFiles(old) \ j.left, b \in j.left : a < b
      /\ \A a \in D : a < f
  BY <1>1, <1>2, <1>3, NextFile
<1> HIDE DEF j, D
<1>8. /\ ~Omitted(job, f) => cat \in Catalog /\ CopiedOf(old, j, D \cup {f}, cat)
      /\ Omitted(job, f) => CopiedOf(old, j, D \cup {f}, proc[p].wcat)
  BY <1>2, <1>3, <1>4, <1>5, <1>6, <1>7, CopyOne
<1> HIDE DEF cat, g
<1>9. ASSUME NEW x, x.job = j, x.rcat = old,
             x.wcat = IF Omitted(job, f) THEN proc[p].wcat ELSE cat
      PROVE  CopyOK(x)
  BY <1>7, <1>8, <1>9 DEF CopyOK
<1> QED BY <1>4, <1>7, <1>8, <1>9 DEF cat, g, j, job, old

\* The file of a hard delete is passed over.
LEMMA OmitAlone ==
    ASSUME NEW p, Single(p), WInv, WInv', AloneOK(p), NEW f \in Path, Omit(p, f)
    PROVE  AloneOK(p)'
<1> DEFINE c == Taken(p, f)
           job == proc[p].job
           j == [job EXCEPT !.left = @ \ {f}]
<1>1. /\ Copying(p, f) /\ Omitted(job, f) /\ Becomes(p, c)
      /\ file' = file /\ name' = name /\ faults' = faults
  BY DEF Omit
<1>2. proc[p].pc = "copy" /\ 1 \in Nat \ {0}
  BY <1>1, CanCopy
<1>3. /\ proc[p].wcat \in Catalog /\ proc[p].pos \in Nat
      /\ proc[p].out \in Inode /\ file[proc[p].out] \in Seq(Item)
  BY <1>2, Making
<1>4. /\ JobOK(j)
      /\ \A x : (x.job = j /\ x.rcat = proc[p].rcat /\ x.wcat = proc[p].wcat) => CopyOK(x)
  BY <1>1, <1>2, Loop
<1>5. DOMAIN c = {"job"} /\ c.job = j
  BY DEF Taken
<1> HIDE DEF c, j
<1>6. /\ proc'[p].pc = "copy" /\ proc'[p].job = j /\ proc'[p].rcat = proc[p].rcat
      /\ proc'[p].wcat = proc[p].wcat /\ proc'[p].pos = proc[p].pos
  <2>1. DOMAIN c \subseteq Fields
    BY <1>5 DEF Fields
  <2> QED BY <1>1, <1>2, <1>5, <2>1, After
<1>7. CopyOK(proc'[p])
  BY <1>4, <1>6
<1>8. Written(file[proc[p].out], proc'[p].pos, proc'[p].wcat)
  BY <1>2, <1>6, Copy
<1>9. \A i \in Inode : file'[i] = IF i = proc[p].out THEN file[proc[p].out] ELSE file[i]
  BY <1>1
<1> QED BY <1>1, <1>2, <1>3, <1>4, <1>5, <1>6, <1>7, <1>8, <1>9, MakeStep

\* A page is appended to the new archive, and its entry to the new catalog.
LEMMA AddPage ==
    ASSUME NEW p, Single(p), WInv, AloneOK(p), proc[p].pc = "copy", NEW g \in Path,
           NEW c \in Content, file' = Appended(p, Data(c))
    PROVE  LET at == proc[p].pos + 1
               new == Put(file[proc[p].out], at, Data(c))
           IN  /\ at \in Nat \ {0} /\ new \in Seq(Item)
               /\ \A i \in Inode : file'[i] = IF i = proc[p].out THEN new ELSE file[i]
               /\ Written(new, at, [proc[p].wcat EXCEPT ![g] = NewEntry(c, at)])
<1> DEFINE items == file[proc[p].out]
           pos == proc[p].pos
           cat == proc[p].wcat
           x == Data(c)
           new == Put(items, pos + 1, x)
<1>1. items \in Seq(Item) /\ pos \in Nat /\ cat \in Catalog /\ DOMAIN file = Inode
  BY Making
<1>2. Written(items, pos, cat) /\ x \in Item
  BY Copy, Items
<1>3. \A i \in Inode : file'[i] = IF i = proc[p].out THEN new ELSE file[i]
  BY <1>1 DEF Appended
<1> HIDE DEF items, pos, cat, x
<1>4. new \in Seq(Item) /\ Written(new, pos + 1, cat) /\ new[pos + 1] = x
  BY <1>1, <1>2, AppendItem
<1> HIDE DEF new
<1>5. Written(new, pos + 1, [cat EXCEPT ![g] = NewEntry(c, pos + 1)])
  BY <1>1, <1>4, WrittenAdds DEF x
<1>6. pos + 1 \in Nat \ {0}
  BY <1>1
<1> QED BY <1>3, <1>4, <1>5, <1>6 DEF new, items, pos, cat, x

\* A file is copied.
LEMMA CopyAlone ==
    ASSUME NEW p, Single(p), WInv, WInv', AloneOK(p), NEW f \in Path, CopyFile(p, f)
    PROVE  AloneOK(p)'
<1> DEFINE job == proc[p].job
           old == proc[p].rcat
           at == proc[p].pos + 1
           g == Emitted(job, f)
           cat == [proc[p].wcat EXCEPT ![g] = NewEntry(old[f].content, at)]
           w == [pos |-> at, wcat |-> cat]
           c == w ++ Taken(p, f)
           j == [job EXCEPT !.left = @ \ {f}]
           new == Put(file[proc[p].out], at, Data(old[f].content))
<1>1. /\ Copying(p, f) /\ ~Omitted(job, f) /\ Becomes(p, c)
      /\ file' = Appended(p, Data(old[f].content)) /\ name' = name /\ faults' = faults
  BY DEF CopyFile, WriterAdds
<1>2. proc[p].pc = "copy" /\ old[f].content \in Content
  BY <1>1, CanCopy
<1>3. at \in Nat \ {0}
  BY <1>2, Making
<1>4. /\ JobOK(j) /\ g \in Path /\ cat \in Catalog
      /\ \A x : (x.job = j /\ x.rcat = old /\ x.wcat = cat) => CopyOK(x)
  <2> HIDE DEF at
  <2> QED BY <1>1, <1>3, Loop
<1>5. /\ new \in Seq(Item) /\ Written(new, at, cat)
      /\ \A i \in Inode : file'[i] = IF i = proc[p].out THEN new ELSE file[i]
  BY <1>1, <1>2, <1>4, AddPage
<1>6. DOMAIN c = {"pos", "wcat", "job"} /\ c.pos = at /\ c.wcat = cat /\ c.job = j
  <2>1. DOMAIN w = {"pos", "wcat"} /\ w.pos = at /\ w.wcat = cat
    OBVIOUS
  <2>2. DOMAIN Taken(p, f) = {"job"} /\ Taken(p, f).job = j
    BY DEF Taken
  <2> HIDE DEF w, at, cat, j
  <2> QED BY <2>1, <2>2 DEF ++
<1> HIDE DEF c, j, new, w, cat, at
<1>7. /\ proc'[p].pc = "copy" /\ proc'[p].job = j /\ proc'[p].rcat = old
      /\ proc'[p].wcat = cat /\ proc'[p].pos = at
  <2>1. DOMAIN c \subseteq Fields
    BY <1>6 DEF Fields
  <2> QED BY <1>1, <1>2, <1>6, <2>1, After
<1>8. CopyOK(proc'[p])
  BY <1>4, <1>7
<1>9. proc'[p].pos \in Nat /\ proc'[p].wcat \in Catalog /\ JobOK(proc'[p].job)
  BY <1>3, <1>4, <1>7
<1>10. /\ proc'[p].pc \in {"copy", "finalise"} /\ proc[p].pc \in {"header", "copy"}
       /\ DOMAIN c \subseteq {"pos", "wcat", "job", "pc"}
       /\ Written(new, proc'[p].pos, proc'[p].wcat)
  BY <1>2, <1>5, <1>6, <1>7
<1> QED BY <1>1, <1>5, <1>7, <1>8, <1>9, <1>10, MakeStep

\* The loop is over.
LEMMA AtEnd ==
    ASSUME NEW p, Single(p), WInv, AloneOK(p), AtChange(p)
    PROVE  /\ proc[p].pc = "copy" /\ Changed(p) = [pc |-> "finalise"]
           /\ CopiedOf(proc[p].rcat, proc[p].job, LiveFiles(proc[p].rcat), proc[p].wcat)
<1>1. proc[p].mode # "created" /\ Stage(proc[p])
  BY Place DEF Single, AloneOK, DataOK
<1>2. proc[p].pc = "copy" /\ proc[p].job.left = {}
  BY <1>1 DEF AtChange, At, Stage
<1>3. LiveFiles(proc[p].rcat) \ proc[p].job.left = LiveFiles(proc[p].rcat)
  BY <1>2
<1>4. CopiedOf(proc[p].rcat, proc[p].job, LiveFiles(proc[p].rcat), proc[p].wcat)
  BY <1>2, <1>3, Copy
<1> QED BY <1>1, <1>2, <1>4 DEF Changed

\* The file that a call adds is added.
LEMMA AddAlone ==
    ASSUME NEW p, Single(p), WInv, WInv', AloneOK(p), AddChange(p)
    PROVE  AloneOK(p)'
<1> DEFINE job == proc[p].job
           at == proc[p].pos + 1
           cat == [proc[p].wcat EXCEPT ![job.path] = NewEntry(job.content, at)]
           w == [pos |-> at, wcat |-> cat]
           c == w ++ [pc |-> "finalise"]
           new == Put(file[proc[p].out], at, Data(job.content))
<1>1. /\ AtChange(p) /\ job.call = "add" /\ file' = Appended(p, Data(job.content))
      /\ name' = name /\ faults' = faults
  BY DEF AddChange, WriterAdds
<1>2. Becomes(p, c)
  BY <1>1, AtEnd DEF AddChange, WriterAdds
<1>3. /\ proc[p].pc = "copy" /\ JobOK(job) /\ proc[p].rcat \in Catalog
      /\ proc[p].wcat \in Catalog /\ at \in Nat \ {0}
      /\ CopiedOf(proc[p].rcat, job, LiveFiles(proc[p].rcat), proc[p].wcat)
  BY <1>1, AtEnd, Making
<1>4. job.path \in Path /\ job.content \in Content
  BY <1>1, <1>3 DEF JobOK
<1>5. cat \in Catalog /\ New(p, cat)
  <2> HIDE DEF at
  <2> QED BY <1>1, <1>3, AddedNew
<1>6. /\ new \in Seq(Item) /\ Written(new, at, cat)
      /\ \A i \in Inode : file'[i] = IF i = proc[p].out THEN new ELSE file[i]
  BY <1>1, <1>3, <1>4, AddPage
<1>7. DOMAIN c = {"pos", "wcat", "pc"} /\ c.pos = at /\ c.wcat = cat /\ c.pc = "finalise"
  <2>1. DOMAIN w = {"pos", "wcat"} /\ w.pos = at /\ w.wcat = cat
    OBVIOUS
  <2> HIDE DEF w, at, cat
  <2> QED BY <2>1 DEF ++
<1> HIDE DEF c, new, w, cat, at
<1>8. /\ proc'[p].pc = "finalise" /\ proc'[p].job = job /\ proc'[p].wcat = cat
      /\ proc'[p].pos = at
  <2>1. DOMAIN c \subseteq Fields
    BY <1>7 DEF Fields
  <2> QED BY <1>2, <1>7, <2>1, After
<1>9. /\ DOMAIN c \subseteq {"pos", "wcat", "job", "pc"} /\ proc'[p].pc \in {"copy", "finalise"}
      /\ proc[p].pc \in {"header", "copy"} /\ proc'[p].pos \in Nat /\ proc'[p].wcat \in Catalog
      /\ JobOK(proc'[p].job) /\ New(p, proc'[p].wcat) /\ Written(new, proc'[p].pos, proc'[p].wcat)
  BY <1>3, <1>5, <1>6, <1>7, <1>8
<1> QED BY <1>1, <1>2, <1>6, <1>8, <1>9, MakeStep

\* The page that is patched keeps its content; the file is flagged.
LEMMA SoftAlone ==
    ASSUME NEW p, Single(p), WInv, WInv', AloneOK(p), SoftDeleteChange(p)
    PROVE  AloneOK(p)'
<1> DEFINE job == proc[p].job
           f == job.path
           items == file[proc[p].out]
           e == proc[p].wcat[f]
           cat == [proc[p].wcat EXCEPT ![f].deleted = TRUE]
           w == [wcat |-> cat]
           c == w ++ [pc |-> "finalise"]
<1>1. /\ AtChange(p) /\ job.call = "delete" /\ job.soft /\ f \in Listed(proc[p].wcat)
      /\ file' = [file EXCEPT ![proc[p].out] = Put(items, e.at, Data(e.content))]
      /\ name' = name /\ faults' = faults
  BY DEF SoftDeleteChange, SoftDelete
<1>2. Becomes(p, c)
  BY <1>1, AtEnd DEF SoftDeleteChange
<1>3. /\ proc[p].pc = "copy" /\ JobOK(job) /\ proc[p].rcat \in Catalog
      /\ proc[p].wcat \in Catalog /\ proc[p].pos \in Nat
      /\ CopiedOf(proc[p].rcat, job, LiveFiles(proc[p].rcat), proc[p].wcat)
  BY <1>1, AtEnd, Making
<1>4. /\ items \in Seq(Item) /\ Written(items, proc[p].pos, proc[p].wcat)
      /\ proc[p].out \in Inode /\ DOMAIN file = Inode
  BY <1>3, Making, Copy
<1>5. f \in Path /\ e \in Entry /\ Extractable(items, e)
  BY <1>1, <1>3, <1>4, Entries DEF JobOK, Listed, Written
<1>6. Put(items, e.at, Data(e.content)) = items
  <2>1. e.at \in Nat \ {0} /\ e.content \in Content /\ e.at <= Len(items) /\ items[e.at] = Data(e.content)
    BY <1>5 DEF Entry, Extractable
  <2>2. Data(e.content) \in Item
    BY <2>1, Items
  <2> HIDE DEF items, e
  <2> QED BY <1>4, <2>1, <2>2, PutSame
<1>7. \A i \in Inode : file'[i] = IF i = proc[p].out THEN items ELSE file[i]
  BY <1>1, <1>4, <1>6
<1>8. cat \in Catalog /\ New(p, cat)
  BY <1>1, <1>3, FlaggedNew
<1>9. Written(items, proc[p].pos, cat)
  BY <1>1, <1>3, <1>4, WrittenFlags
<1>10. DOMAIN c = {"wcat", "pc"} /\ c.wcat = cat /\ c.pc = "finalise"
  <2>1. DOMAIN w = {"wcat"} /\ w.wcat = cat
    OBVIOUS
  <2> HIDE DEF w, cat
  <2> QED BY <2>1 DEF ++
<1> HIDE DEF c, w, cat, items
<1>11. /\ proc'[p].pc = "finalise" /\ proc'[p].job = job /\ proc'[p].wcat = cat
       /\ proc'[p].pos = proc[p].pos
  <2>1. DOMAIN c \subseteq Fields
    BY <1>10 DEF Fields
  <2> QED BY <1>2, <1>10, <2>1, After
<1>12. /\ DOMAIN c \subseteq {"pos", "wcat", "job", "pc"} /\ proc'[p].pc \in {"copy", "finalise"}
       /\ proc[p].pc \in {"header", "copy"} /\ proc'[p].pos \in Nat /\ proc'[p].wcat \in Catalog
       /\ JobOK(proc'[p].job) /\ New(p, proc'[p].wcat)
       /\ Written(items, proc'[p].pos, proc'[p].wcat)
  BY <1>3, <1>8, <1>9, <1>10, <1>11
<1> QED BY <1>1, <1>2, <1>4, <1>7, <1>11, <1>12, MakeStep

\* A hard delete and a rename are done with the loop.
LEMMA NoChangeAlone ==
    ASSUME NEW p, Single(p), WInv, WInv', AloneOK(p), NoChange(p)
    PROVE  AloneOK(p)'
<1> DEFINE job == proc[p].job
           c == [pc |-> "finalise"]
<1>1. /\ AtChange(p) /\ (job.call = "rename" \/ (job.call = "delete" /\ ~job.soft))
      /\ name' = name /\ faults' = faults /\ file' = file
  BY DEF NoChange
<1>2. Becomes(p, c)
  BY <1>1, AtEnd DEF NoChange
<1>3. /\ proc[p].pc = "copy" /\ JobOK(job) /\ proc[p].rcat \in Catalog
      /\ proc[p].wcat \in Catalog /\ proc[p].pos \in Nat /\ file[proc[p].out] \in Seq(Item)
      /\ CopiedOf(proc[p].rcat, job, LiveFiles(proc[p].rcat), proc[p].wcat)
      /\ Written(file[proc[p].out], proc[p].pos, proc[p].wcat)
  BY <1>1, AtEnd, Making, Copy
<1>4. New(p, proc[p].wcat)
  BY <1>1, <1>3, DeletedNew, RenamedNew
<1>5. DOMAIN c = {"pc"} /\ c.pc = "finalise"
  OBVIOUS
<1> HIDE DEF c
<1>6. /\ proc'[p].pc = "finalise" /\ proc'[p].job = job /\ proc'[p].wcat = proc[p].wcat
      /\ proc'[p].pos = proc[p].pos
  <2>1. DOMAIN c \subseteq Fields
    BY <1>5 DEF Fields
  <2> QED BY <1>2, <1>5, <2>1, After
<1>7. \A i \in Inode : file'[i] = IF i = proc[p].out THEN file[proc[p].out] ELSE file[i]
  BY <1>1
<1>8. /\ DOMAIN c \subseteq {"pos", "wcat", "job", "pc"} /\ proc'[p].pc \in {"copy", "finalise"}
      /\ proc[p].pc \in {"header", "copy"} /\ proc'[p].pos \in Nat /\ proc'[p].wcat \in Catalog
      /\ JobOK(proc'[p].job) /\ New(p, proc'[p].wcat)
      /\ Written(file[proc[p].out], proc'[p].pos, proc'[p].wcat)
  BY <1>3, <1>4, <1>5, <1>6
<1> QED BY <1>1, <1>2, <1>3, <1>6, <1>7, <1>8, MakeStep

\* The new archive is finished, and given back.
LEMMA FinaliseAlone ==
    ASSUME NEW p, Single(p), WInv, WInv', AloneOK(p), Finalise(p)
    PROVE  AloneOK(p)'
<1> DEFINE items == file[proc[p].out]
           cat == proc[p].wcat
           new == Put(items, proc[p].pos + 1, End(cat))
           files == [file EXCEPT ![proc[p].out] = new]
           c == [pc |-> "drop_reader"] ++ Released
<1>1. /\ proc[p].pc = "finalise" /\ name' = name /\ faults' = faults
      /\ file' = Reclaimed(files)
  BY DEF Finalise, At, Appended
<1>2. /\ proc[p].mode = "opened" /\ proc[p].out = name["tmp"] /\ proc[p].out \in Inode
      /\ proc[p].out # name["archive"] /\ name["archive"] \in Inode /\ proc[p].reader # None
      /\ JobOK(proc[p].job) /\ cat \in Catalog /\ proc[p].rcat \in Catalog
      /\ proc[p].pos \in Nat /\ DOMAIN file = Inode /\ \A i \in Inode : file[i] \in Seq(Item)
  BY <1>1, Making
<1>3. Becomes(p, c)
  BY <1>2 DEF Finalise
<1>4. Written(items, proc[p].pos, cat) /\ New(p, cat)
  BY <1>1 DEF AloneOK, NewOK
<1>5. new \in Seq(Item) /\ Readable(new) /\ CatalogOf(new) = cat
  BY <1>2, <1>4, FinishArchive
<1>6. /\ DOMAIN c = {"pc", "out", "locked", "pos", "wcat", "finalised"} /\ c.pc = "drop_reader"
      /\ c.out = None /\ c.pos = 0 /\ c.wcat = EmptyCatalog
  BY DEF ++, Released
<1> HIDE DEF c, new
<1>7. /\ proc'[p].pc = "drop_reader" /\ proc'[p].job = proc[p].job
      /\ proc'[p].mode = proc[p].mode /\ proc'[p].reader = proc[p].reader
      /\ proc'[p].rcat = proc[p].rcat /\ proc'[p].out = None /\ proc'[p].pos = 0
      /\ proc'[p].wcat = EmptyCatalog
  <2>1. DOMAIN c \subseteq Fields
    BY <1>6 DEF Fields
  <2> QED BY <1>3, <1>6, <2>1, After
<1>8. /\ DOMAIN files = Inode /\ files[name["tmp"]] = new
      /\ files[name["archive"]] = file[name["archive"]]
      /\ \A i \in Inode : files[i] \in Seq(Item)
  BY <1>2, <1>5
<1> HIDE DEF files
<1>9. /\ \A i \in Inode : file'[i] \in {files[i], <<>>}
      /\ file'[name["archive"]] = file[name["archive"]] /\ file'[name["tmp"]] = new
  <2>1. name["tmp"] # None
    BY <1>2, Inodes
  <2> QED BY <1>1, <1>8, <2>1, FilesAfter
<1>10. DataOK(p)'
  <2>1. <<>> \in Seq(Item)
    BY EmptySeq
  <2>2. \A i \in Inode : file'[i] \in Seq(Item)
    BY <1>8, <1>9, <2>1
  <2>3. proc'[p].mode # "created" /\ proc'[p].rcat \in Catalog /\ proc'[p].wcat \in Catalog
    BY <1>2, <1>7, Entries
  <2> QED BY <1>7, <2>2, <2>3 DEF DataOK, Inode, Item, Catalog, Entry, Magic, Zero, EmptyCatalog
<1>11. OldOK(p)'
  BY <1>1, <1>2, <1>7, <1>9, OldStays DEF AloneOK
<1>12. NewOK(p)'
  BY <1>1, <1>2, <1>4, <1>5, <1>7, <1>9, Inodes, NewKept
<1>13. TmpOK(p)'
  BY <1>1, <1>7 DEF AloneOK, TmpOK, HasTmp
<1> QED BY <1>10, <1>11, <1>12, <1>13 DEF AloneOK

\* The reader of the old archive goes, and the old archive stays.
LEMMA DropAlone ==
    ASSUME NEW p, Single(p), WInv, WInv', AloneOK(p), DropReader(p)
    PROVE  AloneOK(p)'
<1> DEFINE c == [pc |-> "rename", reader |-> None]
<1>1. /\ proc[p].pc = "drop_reader" /\ name' = name /\ faults' = faults /\ Becomes(p, c)
      /\ file' = Reclaimed(file)
  BY DEF DropReader, At
<1>2. DOMAIN c = {"pc", "reader"} /\ c.pc = "rename" /\ c.reader = None
  OBVIOUS
<1> HIDE DEF c
<1>3. /\ proc'[p].pc = "rename" /\ proc'[p].job = proc[p].job
      /\ proc'[p].mode = proc[p].mode /\ proc'[p].reader = None
      /\ proc'[p].rcat = proc[p].rcat /\ proc'[p].out = proc[p].out /\ proc'[p].pos = proc[p].pos
      /\ proc'[p].wcat = proc[p].wcat
  <2>1. DOMAIN c \subseteq Fields
    BY <1>2 DEF Fields
  <2> QED BY <1>1, <1>2, <2>1, After
<1>4. /\ DataOK(p) /\ OldOK(p) /\ DOMAIN file = Inode /\ proc[p].reader # None
      /\ JobOK(proc[p].job)
  BY <1>1 DEF AloneOK, WInv, OldOK, InRewrite
<1>5. /\ name["tmp"] # None /\ Readable(file[name["tmp"]])
      /\ New(p, CatalogOf(file[name["tmp"]]))
  BY <1>1 DEF AloneOK, NewOK
<1>6. /\ \A i \in Inode : file'[i] \in {file[i], <<>>}
      /\ file'[name["archive"]] = file[name["archive"]]
      /\ file'[name["tmp"]] = file[name["tmp"]]
  BY <1>1, <1>4, <1>5, FilesAfter
<1>7. DataOK(p)'
  <2>1. <<>> \in Seq(Item)
    BY EmptySeq
  <2>2. \A i \in Inode : file'[i] \in Seq(Item)
    BY <1>4, <1>6, <2>1 DEF DataOK
  <2> QED BY <1>3, <1>4, <2>2 DEF DataOK, Inode, Item, Catalog, Entry, Magic, Zero, EmptyCatalog
<1>8. OldOK(p)'
  <2>1. proc'[p].pc \notin InRewrite
    BY <1>3 DEF InRewrite
  <2> QED BY <1>1, <1>3, <1>4, <1>6, <2>1, OldStays
<1>9. NewOK(p)'
  BY <1>1, <1>3, <1>5, <1>6, NewKept
<1>10. TmpOK(p)'
  BY <1>1, <1>3 DEF AloneOK, TmpOK, HasTmp
<1> QED BY <1>7, <1>8, <1>9, <1>10 DEF AloneOK

\* The new archive takes the place of the old one.
LEMMA RenameAlone ==
    ASSUME NEW p, Single(p), WInv, WInv', AloneOK(p), Rename(p)
    PROVE  AloneOK(p)'
<1> DEFINE c == [pc |-> "reopen"]
<1>1. /\ proc[p].pc = "rename" /\ name' = [archive |-> name["tmp"], tmp |-> None]
      /\ faults' = faults /\ Becomes(p, c) /\ file' = Reclaimed(file)
  BY DEF Rename, At
<1>2. DOMAIN c = {"pc"} /\ c.pc = "reopen"
  OBVIOUS
<1> HIDE DEF c
<1>3. /\ proc'[p].pc = "reopen" /\ proc'[p].job = proc[p].job
      /\ proc'[p].mode = proc[p].mode /\ proc'[p].reader = proc[p].reader
      /\ proc'[p].rcat = proc[p].rcat /\ proc'[p].out = proc[p].out /\ proc'[p].pos = proc[p].pos
      /\ proc'[p].wcat = proc[p].wcat
  <2>1. DOMAIN c \subseteq Fields
    BY <1>2 DEF Fields
  <2> QED BY <1>1, <1>2, <2>1, After
<1>4. /\ DataOK(p) /\ DOMAIN file = Inode /\ proc[p].reader = None /\ JobOK(proc[p].job)
  BY <1>1 DEF AloneOK, WInv, OldOK
<1>5. Readable(file[name["tmp"]]) /\ New(p, CatalogOf(file[name["tmp"]]))
  BY <1>1 DEF AloneOK, NewOK
<1>6. name'["archive"] = name["tmp"] /\ name'["tmp"] = None
  BY <1>1
<1>7. /\ \A i \in Inode : file'[i] \in {file[i], <<>>}
      /\ file'[name'["archive"]] = file[name["tmp"]]
  BY <1>1, <1>4, <1>6, FilesAfter
<1>8. DataOK(p)'
  <2>1. <<>> \in Seq(Item)
    BY EmptySeq
  <2>2. \A i \in Inode : file'[i] \in Seq(Item)
    BY <1>4, <1>7, <2>1 DEF DataOK
  <2> QED BY <1>3, <1>4, <2>2 DEF DataOK, Inode, Item, Catalog, Entry, Magic, Zero, EmptyCatalog
<1>9. OldOK(p)'
  <2>1. Readable(file[name["archive"]])'
    BY <1>5, <1>7 DEF Readable, Complete, CatalogOf, Listed, Extractable, Data
  <2>2. New(p, CatalogOf(file[name["archive"]]))'
    <3>1. PICK k : k = CatalogOf(file[name["tmp"]])
      OBVIOUS
    <3>2. New(p, k)'
      BY <1>3, <1>5, <3>1, NewStays
    <3>3. CatalogOf(file[name["archive"]])' = k
      BY <1>7, <3>1 DEF CatalogOf
    <3> QED BY <3>2, <3>3 DEF New
  <2> QED BY <1>3, <1>4, <2>1, <2>2 DEF OldOK, InRewrite
<1>10. NewOK(p)'
  BY <1>3 DEF NewOK
<1>11. TmpOK(p)'
  BY <1>1, <1>6 DEF AloneOK, TmpOK
<1> QED BY <1>8, <1>9, <1>10, <1>11 DEF AloneOK

\* The temporary file is removed, and then the writer.
LEMMA CleansAlone ==
    ASSUME NEW p, Single(p), WInv, WInv', AloneOK(p), RemoveTmp(p) \/ Destroy(p)
    PROVE  AloneOK(p)'
<1>1. /\ Stage(proc[p]) /\ DOMAIN file = Inode /\ proc[p].pc \in {"remove_tmp", "destroy"}
      /\ faults' = faults /\ faults \in Nat
  BY Place DEF Single, WInv, RemoveTmp, Destroy, At, AloneOK, TmpOK
<1>2. proc[p].out \in Inode /\ proc[p].out # None /\ proc[p].pc \in InRewrite
  BY <1>1, Inodes DEF Stage, InRewrite
<1>3. CASE RemoveTmp(p)
  <2> DEFINE c == [pc |-> "destroy"]
  <2>1. /\ Becomes(p, c) /\ name'["tmp"] = None /\ name'["archive"] = name["archive"]
        /\ file' = Reclaimed(file)
    BY <1>3 DEF RemoveTmp, WInv, NamesOK
  <2>2. DOMAIN c = {"pc"} /\ c.pc = "destroy"
    OBVIOUS
  <2> HIDE DEF c
  <2> QED BY <1>1, <1>2, <2>1, <2>2, CleanupAlone
<1>4. CASE Destroy(p)
  <2> DEFINE items == IF proc[p].finalised THEN file ELSE Appended(p, End(proc[p].wcat))
  <2>1. /\ proc[p].pc = "destroy" /\ Becomes(p, Returned ++ Released) /\ name' = name
        /\ file' = Reclaimed(items)
    BY <1>4 DEF Destroy, At
  <2>2. /\ \A i \in Inode : file[i] \in Seq(Item)
        /\ proc[p].pos \in Nat /\ proc[p].wcat \in Catalog
    BY DEF AloneOK, DataOK
  <2>3. Put(file[proc[p].out], proc[p].pos + 1, End(proc[p].wcat)) \in Seq(Item)
    <3>1. /\ file[proc[p].out] \in Seq(Item) /\ proc[p].pos + 1 \in Nat \ {0}
          /\ End(proc[p].wcat) \in Item
      BY <1>2, <2>2, Items
    <3> QED BY <3>1, PutAnywhere
  <2>4. /\ DOMAIN items = Inode /\ \A i \in Inode : items[i] \in Seq(Item)
        /\ items[name["archive"]] = file[name["archive"]]
    <3>1. proc[p].out # name["archive"] /\ name["archive"] \in Inode
      BY <1>2, OutIsNew DEF WInv, NamesOK
    <3> QED BY <1>1, <1>2, <2>2, <2>3, <3>1 DEF Appended
  <2>5. proc[p].pc \notin HasTmp
    BY <2>1 DEF HasTmp
  <2> HIDE DEF items
  <2> QED BY <1>1, <2>1, <2>4, <2>5, ReleasedAlone
<1> QED BY <1>3, <1>4

\* Nothing happens.
LEMMA NothingAlone ==
    ASSUME NEW p, AloneOK(p), UNCHANGED vars
    PROVE  AloneOK(p)'
<1>1. proc' = proc /\ file' = file /\ name' = name /\ faults' = faults
  BY DEF vars
<1>2. DataOK(p)'
  BY <1>1 DEF AloneOK, DataOK, Inode, Item, Catalog, Entry, Magic, Zero, EmptyCatalog
<1>3. OldOK(p)'
  BY <1>1 DEF AloneOK, OldOK, New, Expected
<1>4. NewOK(p)'
  BY <1>1 DEF AloneOK, NewOK, New, Expected
<1>5. TmpOK(p)'
  BY <1>1 DEF AloneOK, TmpOK
<1> QED BY <1>2, <1>3, <1>4, <1>5 DEF AloneOK

\* The calls of the program.
LEMMA CallsAlone ==
    ASSUME NEW p, Single(p), WInv, WInv', AloneOK(p), Calls(p)
    PROVE  AloneOK(p)'
<1>1. proc[p].mode # "created" /\ faults \in Nat /\ p \notin Creator
  BY DEF AloneOK, DataOK, TmpOK, Single
<1>2. ~Create(p) /\ ~CloseNew(p) /\ \A f \in Path, c \in Content : ~AddToNew(p, f, c)
  BY <1>1 DEF Create, CloseNew, AddToNew, Call, Idle
<1>3. CASE Open(p)
  BY <1>3, OpenAlone
<1>4. CASE OpenFails(p)
  BY <1>4, NothingAlone DEF OpenFails
<1>5. CASE Close(p) \/ \E f \in Path : ExtractFile(p, f)
  <2>1. /\ proc[p].pc = "idle" /\ Becomes(p, Closed) /\ name' = name /\ file' = Reclaimed(file)
        /\ faults' = faults
    BY <1>5 DEF Close, ExtractFile, Dies, Idle, At
  <2>2. proc[p].pc \notin HasTmp
    BY <2>1 DEF HasTmp
  <2> QED BY <1>1, <2>1, <2>2, ClosedAlone
<1>6. CASE \E f \in Path :
             \/ \E c \in Content : AddFile(p, f, c)
             \/ \E soft \in BOOLEAN : DeleteFile(p, f, soft)
             \/ \E g \in Path : RenameFile(p, f, g)
  BY <1>6, BeginAlone
<1> QED BY <1>2, <1>3, <1>4, <1>5, <1>6 DEF Calls

\* The steps of the loop, and of the change behind it.
LEMMA LoopsAlone ==
    ASSUME NEW p, Single(p), WInv, WInv', AloneOK(p),
           \/ \E f \in Path : Omit(p, f) \/ CopyFile(p, f) \/ CopyFails(p, f) \/ CopyDies(p, f)
           \/ AddChange(p) \/ SoftDeleteChange(p) \/ SoftDeleteFails(p) \/ NoChange(p)
    PROVE  AloneOK(p)'
<1>1. \A f \in Path : ~CopyFails(p, f) /\ ~CopyDies(p, f)
  BY CanCopy DEF CopyFails, CopyDies
<1>2. CASE SoftDeleteFails(p)
  <2> DEFINE c == [pc |-> "remove_tmp"]
  <2>1. /\ AtChange(p) /\ Becomes(p, c) /\ name' = name /\ file' = file /\ faults' = faults
    BY <1>2 DEF SoftDeleteFails, SoftDelete
  <2>2. proc[p].pc = "copy" /\ proc[p].out \in Inode
    BY <2>1, AtEnd, Making
  <2>3. proc[p].out # None /\ proc[p].pc \in InRewrite /\ faults \in Nat
    BY <2>2, Inodes DEF InRewrite, AloneOK, TmpOK
  <2>4. DOMAIN c = {"pc"} /\ c.pc = "remove_tmp"
    OBVIOUS
  <2> HIDE DEF c
  <2> QED BY <2>1, <2>3, <2>4, CleanupAlone
<1> QED BY <1>1, <1>2, OmitAlone, CopyAlone, AddAlone, SoftAlone, NoChangeAlone

\* A failure, or a kill: what is under the path is not touched.
LEMMA FailsAlone ==
    ASSUME NEW p, Single(p), WInv, WInv', AloneOK(p), Fails(p)
    PROVE  AloneOK(p)'
<1>1. /\ faults \in Nat /\ faults' = faults + 1 /\ file' = Reclaimed(file)
      /\ proc[p].mode # "created" /\ DOMAIN file = Inode
      /\ \A i \in Inode : file[i] \in Seq(Item)
  BY DEF Fails, AloneOK, DataOK, TmpOK, WInv
<1>2. faults' \in Nat /\ faults' # 0
  BY <1>1
<1>3. CASE HeaderFails(p)
  <2>1. Becomes(p, Returned ++ Released) /\ name' = name
    BY <1>3 DEF HeaderFails
  <2> QED BY <1>1, <1>2, <2>1, ReleasedAlone
<1>4. CASE PageFails(p) \/ FinaliseFails(p)
  <2>1. proc[p].pc = "copy" \/ proc[p].pc = "finalise"
    BY <1>4, AtEnd DEF PageFails, FinaliseFails, Copying, SoftDelete, At
  <2>2. proc[p].out # None /\ proc[p].pc \in InRewrite /\ name' = name
    BY <1>4, <2>1, Making, Inodes DEF InRewrite, PageFails, FinaliseFails
  <2>3. PICK c : /\ Becomes(p, c)
                 /\ c = [pc |-> "remove_tmp"] \/ c = [pc |-> "remove_tmp", finalised |-> TRUE]
    BY <1>1, <1>4 DEF PageFails, FinaliseFails
  <2>4. DOMAIN c \subseteq {"pc", "finalised"} /\ "pc" \in DOMAIN c /\ c.pc = "remove_tmp"
    BY <2>3
  <2> QED BY <1>1, <1>2, <2>2, <2>3, <2>4, CleanupAlone
<1>5. CASE RenameBreaks(p)
  <2>1. proc[p].pc = "rename" /\ Becomes(p, Returned ++ [rcat |-> EmptyCatalog]) /\ name' = name
    BY <1>5 DEF RenameBreaks, At
  <2> QED BY <1>1, <1>2, <2>1, NotRenamedAlone
<1>6. CASE ReopenBreaks(p) \/ Kill(p)
  <2>1. Becomes(p, Closed) /\ name' = name
    BY <1>6 DEF ReopenBreaks, Kill
  <2> QED BY <1>1, <1>2, <2>1, ClosedAlone
<1> QED BY <1>3, <1>4, <1>5, <1>6 DEF Fails

\* The steps of the call.
LEMMA StepAlone ==
    ASSUME NEW p, Single(p), WInv, WInv', AloneOK(p), Step(p)
    PROVE  AloneOK(p)'
<1>1. ~LockFails(p) /\ ~RenameFails(p)
  <2>1. ~LockFails(p)
    BY DEF LockFails, Locked, WriteLocked, Single
  <2>2. proc[p].pc = "rename" => name["tmp"] # None
    BY DEF AloneOK, NewOK
  <2> QED BY <2>1, <2>2 DEF RenameFails, At
<1>2. CASE ReopenFails(p)
  <2>1. /\ proc[p].pc = "reopen" /\ Becomes(p, Closed) /\ name' = name /\ file' = file
        /\ faults' = faults /\ faults \in Nat
    BY <1>2 DEF ReopenFails, At, AloneOK, TmpOK
  <2>2. proc[p].pc \notin HasTmp
    BY <2>1 DEF HasTmp
  <2> QED BY <2>1, <2>2, ClosedAlone
<1>3. CASE OpenOut(p) \/ LockOut(p) \/ Header(p) \/ Reopen(p)
  BY <1>3, OpenOutAlone, LockAlone, HeaderAlone, OpenAlone
<1>4. CASE \/ \E f \in Path : Omit(p, f) \/ CopyFile(p, f) \/ CopyFails(p, f) \/ CopyDies(p, f)
           \/ AddChange(p) \/ SoftDeleteChange(p) \/ SoftDeleteFails(p) \/ NoChange(p)
  BY <1>4, LoopsAlone
<1>5. CASE Finalise(p) \/ DropReader(p) \/ Rename(p)
  BY <1>5, FinaliseAlone, DropAlone, RenameAlone
<1>6. CASE RemoveTmp(p) \/ Destroy(p)
  BY <1>6, CleansAlone
<1> QED BY <1>1, <1>2, <1>3, <1>4, <1>5, <1>6 DEF Step

-----------------------------------------------------------------------------
(* The theorems.                                                            *)

\* Initially there is an empty archive, which nobody has open.
LEMMA AloneInit ==
    ASSUME NEW p, Single(p), Init
    PROVE  AloneOK(p)
<1> DEFINE items == <<Magic, End(EmptyCatalog)>>
<1>1. /\ name = [archive |-> 1, tmp |-> None] /\ proc[p] = Closed /\ faults = 0
      /\ file = [i \in Inode |-> IF i = 1 THEN items ELSE <<>>]
  BY DEF Init, Single
<1>2. 1 \in Inode
  BY Inodes
<1>3. items \in Seq(Item) /\ Len(items) = 2 /\ items[1] = Magic /\ items[2] = End(EmptyCatalog)
  BY Items, Entries
<1> HIDE DEF items
<1>4. Complete(items) /\ CatalogOf(items) = EmptyCatalog
  BY <1>3, Items, Entries DEF Complete, CatalogOf
<1>5. Readable(items)
  BY <1>4, Entries DEF Readable, Listed
<1>6. /\ proc[p].mode = "closed" /\ proc[p].pc = "idle" /\ proc[p].reader = None
      /\ proc[p].rcat = EmptyCatalog /\ proc[p].out = None /\ proc[p].pos = 0
      /\ proc[p].wcat = EmptyCatalog
  BY <1>1 DEF Closed
<1>7. DataOK(p)
  <2>1. <<>> \in Seq(Item)
    BY EmptySeq
  <2>2. \A i \in Inode : file[i] \in Seq(Item)
    BY <1>1, <1>3, <2>1
  <2> QED BY <1>6, <2>2, Entries DEF DataOK
<1>8. OldOK(p)
  <2>1. Readable(file[name["archive"]])
    BY <1>1, <1>2, <1>5
  <2> QED BY <1>6, <2>1 DEF OldOK, InRewrite
<1>9. NewOK(p)
  BY <1>6 DEF NewOK
<1>10. TmpOK(p)
  BY <1>1 DEF TmpOK
<1> QED BY <1>7, <1>8, <1>9, <1>10 DEF AloneOK

\* Every step of the process keeps the invariant.
LEMMA AloneNext ==
    ASSUME NEW p, Single(p), WInv, AloneOK(p), [Next]_vars
    PROVE  AloneOK(p)'
<1>1. WInv'
  BY WNext
<1>2. CASE UNCHANGED vars
  BY <1>2, NothingAlone
<1>3. CASE Next
  <2>1. Calls(p) \/ Step(p) \/ Fails(p)
    BY <1>3 DEF Next, Single
  <2> QED BY <1>1, <2>1, CallsAlone, StepAlone, FailsAlone
<1> QED BY <1>2, <1>3

\* The invariant holds of every behaviour of a single process.
LEMMA Alone ==
    ASSUME NEW p, Single(p)
    PROVE  Spec => [](WInv /\ AloneOK(p))
<1>1. Init => WInv /\ AloneOK(p)
  BY WInit, AloneInit
<1>2. WInv /\ AloneOK(p) /\ [Next]_vars => (WInv /\ AloneOK(p))'
  BY WNext, AloneNext
<1> QED BY <1>1, <1>2, PTL DEF Spec

\* One process that rewrites an archive, and may fail or be killed at every
\* step, leaves a complete archive under the path at every moment, every file
\* of which can be read.
THEOREM ArchiveStaysComplete ==
    ASSUME NEW p, Process = {p}, Creator = {}
    PROVE  Spec => []ArchiveComplete
<1>1. Single(p)
  BY DEF Single
<1>2. AloneOK(p) => ArchiveComplete
  BY DEF AloneOK, OldOK, Readable, ArchiveComplete
<1> QED BY <1>1, <1>2, Alone, PTL

\* Its files are those from before the call, all of them, until the rename,
\* and what the call makes of them after it: no failure leaves half a change.
THEOREM OldOrNewSurvives ==
    ASSUME NEW p, Process = {p}, Creator = {}
    PROVE  Spec => []OldOrNew
<1>1. Single(p)
  BY DEF Single
<1>2. AloneOK(p) => OldOrNew
  <2> SUFFICES ASSUME AloneOK(p) PROVE OldOrNew
    OBVIOUS
  <2> DEFINE now == CatalogOf(file[name["archive"]])
  <2>1. /\ (proc[p].reader # None \/ proc[p].pc = "rename") => proc[p].rcat = now
        /\ proc[p].pc = "reopen" => New(p, now)
    BY DEF AloneOK, OldOK
  <2> HIDE DEF now
  <2>2. (proc[p].reader # None \/ At(p, "rename") \/ At(p, "reopen")) =>
          IF At(p, "reopen")
          THEN /\ Live(now) = Expected(p)
               /\ (proc[p].job.call = "delete" /\ proc[p].job.soft) =>
                    proc[p].job.path \in Listed(now)
          ELSE Live(now) = Live(proc[p].rcat)
    BY <2>1 DEF At, New
  <2> QED BY <2>2 DEF OldOrNew, now
<1> QED BY <1>1, <1>2, Alone, PTL

\* When no step of the file system has failed, the temporary file is there
\* during a rewrite only, whether the rewrite succeeds or not.
THEOREM NoTmpIsLeft ==
    ASSUME NEW p, Process = {p}, Creator = {}
    PROVE  Spec => []TmpRemoved
<1>1. Single(p)
  BY DEF Single
<1>2. AloneOK(p) => TmpRemoved
  BY DEF AloneOK, TmpOK, TmpRemoved, HasTmp, At
<1> QED BY <1>1, <1>2, Alone, PTL
=============================================================================
