--------------------------- MODULE IOHandlerProofs ---------------------------
(***************************************************************************)
(* Proofs about IOHandler, for any number of processes and handles: the    *)
(* locks keep writers apart from every other process, and what an object   *)
(* remembers of the file stays true of it, as long as no other handle got  *)
(* past them: the size its range check uses, the bytes before the append   *)
(* position, and what the spans of a map show.                             *)
(***************************************************************************)
EXTENDS IOHandler, SequenceTheorems, TLAPS

-----------------------------------------------------------------------------
(* The locks.                                                               *)

\* The handles keep the fields the lock is about.
Fields == {"pc", "mode", "size", "append", "map", "unmapped", "buf"}
IsHandle(v) == DOMAIN v = Fields /\ v.mode \in Modes
HandlesOK == DOMAIN io = Handles /\ \A h \in Handles : IsHandle(io[h])

LocksOK == locks \in [Procs -> {"none", "read", "write"}]

\* fcntl grants no lock beside a writer's.
WriteLockAlone ==
    \A p, q \in Procs : p # q /\ locks[p] = "write" => locks[q] = "none"

\* A process that never had two handles has at most one.
SingleHandle ==
    \A h, g \in Handles :
      /\ h # g /\ Owner[h] = Owner[g]
      /\ io[h].pc # "closed" /\ io[g].pc # "closed"
      => Owner[h] \in doubled

\* Beyond LockFile a handle has the lock its mode asks for, unless another
\* handle of its process took it away.
LockHeld ==
    \A h \in Handles :
      io[h].pc \in {"locked", "ready"} =>
        Owner[h] \in doubled \/ locks[Owner[h]] = LockType(io[h].mode)

IInv == HandlesOK /\ LocksOK /\ WriteLockAlone /\ SingleHandle /\ LockHeld

-----------------------------------------------------------------------------
\* Every handle belongs to a process.
LEMMA OwnerIsProc == \A h \in Handles : Owner[h] \in Procs
BY IOAssumption DEF IOAssumption, Procs, Range

\* The invariant is strong enough.
LEMMA InvImpliesExclusion == IInv => LockExclusion
BY OwnerIsProc DEF IInv, LockExclusion, WriteLockAlone, LockHeld, LockType, Writes,
   Ready, Writer, LocksOK

\* CloseFile and a failed constructor leave a handle like any other.
LEMMA ClosedIsHandle == IsHandle(Closed) /\ Closed.pc = "closed"
BY DEF IsHandle, Closed, Fields, Modes

\* Before the first constructor runs there are no handles and no locks.
LEMMA InitInv == Init => IInv
<1> SUFFICES ASSUME Init PROVE IInv
  OBVIOUS
<1>1. HandlesOK
  BY ClosedIsHandle DEF Init, HandlesOK
<1>2. LocksOK /\ WriteLockAlone
  BY DEF Init, LocksOK, WriteLockAlone
<1>3. SingleHandle /\ LockHeld
  BY ClosedIsHandle DEF Init, SingleHandle, LockHeld
<1> QED BY <1>1, <1>2, <1>3 DEF IInv

\* A step that leaves handles where they are leaves the invariant alone.
LEMMA QuietStep ==
    ASSUME IInv, HandlesOK', UNCHANGED <<locks, doubled>>,
           \A h \in Handles : io'[h].pc = io[h].pc /\ io'[h].mode = io[h].mode
    PROVE  IInv'
BY DEF IInv, LocksOK, WriteLockAlone, SingleHandle, LockHeld

\* An operation touches the object it is called on and no other.
LEMMA OneHandle ==
    ASSUME HandlesOK, NEW h \in Handles, NEW v, IsHandle(v), Becomes(h, v)
    PROVE  /\ HandlesOK'
           /\ io'[h] = v
           /\ \A g \in Handles : g # h => io'[g] = io[g]
BY DEF HandlesOK, Becomes

\* Reading and writing through a handle changes what it knows of the file.
LEMMA QuietHandle ==
    ASSUME IInv, NEW h \in Handles, NEW v, IsHandle(v), Becomes(h, v),
           v.pc = io[h].pc, v.mode = io[h].mode, UNCHANGED <<locks, doubled>>
    PROVE  IInv'
<1>1. HandlesOK /\ HandlesOK' /\ io'[h] = v /\ \A g \in Handles : g # h => io'[g] = io[g]
  BY OneHandle DEF IInv
<1> QED BY <1>1, QuietStep

\* A step that leaves the objects and the locks alone.
LEMMA UnchangedInv == IInv /\ UNCHANGED <<io, locks, doubled>> => IInv'
BY DEF IInv, HandlesOK, LocksOK, WriteLockAlone, SingleHandle, LockHeld

-----------------------------------------------------------------------------
(* One lemma per action that moves a handle or a lock.                      *)

\* A second handle makes its process one of the doubled.
LEMMA OpenFileInv ==
    ASSUME IInv, NEW h \in Handles, NEW mode \in Modes, OpenFile(h, mode)
    PROVE  IInv'
<1>1. PICK v : IsHandle(v) /\ v.pc = "opened" /\ Becomes(h, v)
  BY DEF OpenFile, Closed, Fields, IsHandle, Modes
<1>2. HandlesOK' /\ io'[h] = v /\ \A g \in Handles : g # h => io'[g] = io[g]
  BY <1>1, OneHandle DEF IInv
<1>3. io[h].pc = "closed" /\ UNCHANGED locks /\ doubled \subseteq doubled'
  BY DEF OpenFile
<1>4. SingleHandle'
  <2> SUFFICES ASSUME NEW f \in Handles, NEW g \in Handles, f # g, Owner[f] = Owner[g],
                      io'[f].pc # "closed", io'[g].pc # "closed"
               PROVE  Owner[f] \in doubled'
    BY DEF SingleHandle
  <2>1. CASE f # h /\ g # h
    BY <2>1, <1>2, <1>3 DEF IInv, SingleHandle
  <2>2. CASE f = h \/ g = h
    <3>1. \E k \in Handles \ {h} : Owner[k] = Owner[h] /\ io[k].pc # "closed"
      BY <2>2, <1>2
    <3> QED BY <3>1, <2>2 DEF OpenFile
  <2> QED BY <2>1, <2>2
<1>5. LockHeld'
  BY <1>1, <1>2, <1>3 DEF IInv, LockHeld
<1> QED BY <1>2, <1>3, <1>4, <1>5 DEF IInv, LocksOK, WriteLockAlone

\* The new lock goes with the locks of the others, and only a handle of the
\* same process could miss the old one.
LEMMA LockFileInv ==
    ASSUME IInv, NEW h \in Handles, LockFile(h)
    PROVE  IInv'
<1> DEFINE p    == Owner[h]
           type == LockType(io[h].mode)
<1>0. p \in Procs /\ type \in {"read", "write"} /\ io[h].pc = "opened" /\ UNCHANGED doubled
  BY OwnerIsProc DEF LockFile, LockType
<1>1. CASE Compatible(p, type)
  <2>1. PICK v : IsHandle(v) /\ v.pc \in {"locked", "ready"} /\ v.mode = io[h].mode
                 /\ Becomes(h, v)
    <3> DEFINE w == [io[h] EXCEPT !.pc = IF Writes(io[h].mode) THEN "ready" ELSE "locked"]
    <3>1. IsHandle(w) /\ w.pc \in {"locked", "ready"} /\ w.mode = io[h].mode
      BY DEF IInv, HandlesOK, Fields, IsHandle
    <3>2. Becomes(h, w)
      BY <1>1 DEF LockFile
    <3> QED BY <3>1, <3>2
  <2>2. HandlesOK' /\ io'[h] = v /\ \A g \in Handles : g # h => io'[g] = io[g]
    BY <2>1, OneHandle DEF IInv
  <2>3. locks' = [locks EXCEPT ![p] = type]
    BY <1>1 DEF LockFile
  <2>4. LocksOK'
    BY <2>3, <1>0 DEF IInv, LocksOK
  <2>5. WriteLockAlone'
    BY <2>3, <1>0, <1>1 DEF IInv, LocksOK, WriteLockAlone, Compatible
  <2>6. SingleHandle'
    BY <2>1, <2>2, <1>0 DEF IInv, SingleHandle
  <2>7. LockHeld'
    <3> SUFFICES ASSUME NEW g \in Handles, io'[g].pc \in {"locked", "ready"},
                        Owner[g] \notin doubled'
                 PROVE  locks'[Owner[g]] = LockType(io'[g].mode)
      BY DEF LockHeld
    <3>1. CASE g = h
      BY <3>1, <2>1, <2>2, <2>3, <1>0 DEF IInv, LocksOK
    <3>2. CASE g # h
      <4>1. io'[g] = io[g]
        BY <3>2, <2>2
      <4>2. Owner[g] # p
        BY <3>2, <4>1, <1>0 DEF IInv, SingleHandle
      <4> QED BY <4>1, <4>2, <2>3, <1>0, OwnerIsProc DEF IInv, LocksOK, LockHeld
    <3> QED BY <3>1, <3>2
  <2> QED BY <2>2, <2>4, <2>5, <2>6, <2>7 DEF IInv
<1>2. CASE ~Compatible(p, type)
  <2>1. Becomes(h, Closed) /\ UNCHANGED locks
    BY <1>2 DEF LockFile
  <2>2. HandlesOK' /\ io'[h] = Closed /\ \A g \in Handles : g # h => io'[g] = io[g]
    BY <2>1, OneHandle, ClosedIsHandle DEF IInv
  <2>3. io'[h].pc = "closed"
    BY <2>2 DEF Closed
  <2> QED BY <2>1, <2>2, <2>3, <1>0
          DEF IInv, LocksOK, WriteLockAlone, SingleHandle, LockHeld
<1> QED BY <1>1, <1>2

\* A handle that could not be mapped is closed and leaves its lock behind.
LEMMA MapFileInv ==
    ASSUME IInv, NEW h \in Handles, MapFile(h)
    PROVE  IInv'
<1>1. io[h].pc = "locked" /\ UNCHANGED <<locks, doubled>>
  BY DEF MapFile
<1>2. PICK v : IsHandle(v) /\ v.pc \in {"ready", "closed"}
               /\ (v.pc = "ready" => v.mode = io[h].mode) /\ Becomes(h, v)
  <2> DEFINE w == [io[h] EXCEPT !.pc = "ready", !.map = io[h].size]
  <2>1. IsHandle(w) /\ w.pc = "ready" /\ w.mode = io[h].mode
    BY DEF IInv, HandlesOK, Fields, IsHandle
  <2>2. IsHandle(Closed) /\ Closed.pc = "closed"
    BY ClosedIsHandle
  <2>3. Becomes(h, w) \/ Becomes(h, Closed)
    BY DEF MapFile
  <2> QED BY <2>1, <2>2, <2>3
<1>3. HandlesOK' /\ io'[h] = v /\ \A g \in Handles : g # h => io'[g] = io[g]
  BY <1>2, OneHandle DEF IInv
<1> QED BY <1>1, <1>2, <1>3 DEF IInv, LocksOK, WriteLockAlone, SingleHandle, LockHeld

\* Unlocking takes the lock of the whole process.
LEMMA DestroyInv ==
    ASSUME IInv, NEW h \in Handles, Destroy(h)
    PROVE  IInv'
<1> DEFINE p == Owner[h]
<1>0. p \in Procs /\ io[h].pc = "ready" /\ UNCHANGED doubled /\ locks' = [locks EXCEPT ![p] = "none"]
  BY OwnerIsProc DEF Destroy, Ready, UnlockFile
<1>1. PICK v : IsHandle(v) /\ v.pc = "closed" /\ Becomes(h, v)
  BY DEF Destroy, CloseFile, UnmapFile, Closed, Fields, IsHandle, Modes
<1>2. HandlesOK' /\ io'[h] = v /\ \A g \in Handles : g # h => io'[g] = io[g]
  BY <1>1, OneHandle DEF IInv
<1>3. LocksOK' /\ WriteLockAlone'
  BY <1>0 DEF IInv, LocksOK, WriteLockAlone
<1>4. SingleHandle'
  BY <1>0, <1>1, <1>2 DEF IInv, SingleHandle
<1>5. LockHeld'
  <2> SUFFICES ASSUME NEW g \in Handles, io'[g].pc \in {"locked", "ready"},
                      Owner[g] \notin doubled'
               PROVE  locks'[Owner[g]] = LockType(io'[g].mode)
    BY DEF LockHeld
  <2>1. g # h /\ io'[g] = io[g]
    BY <1>1, <1>2
  <2>2. Owner[g] # p
    BY <2>1, <1>0 DEF IInv, SingleHandle
  <2> QED BY <2>1, <2>2, <1>0, OwnerIsProc DEF IInv, LocksOK, LockHeld
<1> QED BY <1>2, <1>3, <1>4, <1>5 DEF IInv

\* The lock moves with the handle unless the target had a file, too; then
\* the process had two handles.
LEMMA MoveInv ==
    ASSUME IInv, NEW h \in Handles, NEW g \in Handles, Move(h, g)
    PROVE  IInv'
<1>0. /\ h # g /\ Owner[h] = Owner[g] /\ Owner[g] \in Procs
      /\ io[h].pc = "ready" /\ UNCHANGED doubled
      /\ Ready(g) \/ io[g].pc = "closed"
      /\ locks' = IF Ready(g) THEN [locks EXCEPT ![Owner[g]] = "none"] ELSE locks
  BY OwnerIsProc DEF Move, Ready, UnlockFile
<1>1. /\ HandlesOK' /\ io'[g] = io[h] /\ io'[h] = Closed
      /\ \A k \in Handles \ {g, h} : io'[k] = io[k]
  BY <1>0, ClosedIsHandle DEF Move, IInv, HandlesOK
<1>2. io'[h].pc = "closed"
  BY <1>1 DEF Closed
<1>3. LocksOK' /\ WriteLockAlone'
  BY <1>0 DEF IInv, LocksOK, WriteLockAlone
<1>4. SingleHandle'
  BY <1>0, <1>1, <1>2 DEF IInv, SingleHandle
<1>5. LockHeld'
  <2> SUFFICES ASSUME NEW k \in Handles, io'[k].pc \in {"locked", "ready"},
                      Owner[k] \notin doubled'
               PROVE  locks'[Owner[k]] = LockType(io'[k].mode)
    BY DEF LockHeld
  <2>1. CASE Ready(g)
    <3>1. Owner[g] \in doubled
      BY <2>1, <1>0 DEF IInv, SingleHandle, Ready
    <3>2. k # g /\ k # h /\ Owner[k] # Owner[g] /\ io'[k] = io[k]
      BY <3>1, <1>0, <1>1
    <3> QED BY <3>2, <1>0, OwnerIsProc DEF IInv, LocksOK, LockHeld
  <2>2. CASE ~Ready(g)
    <3>1. CASE k = g
      BY <3>1, <2>2, <1>0, <1>1 DEF IInv, LockHeld
    <3>2. CASE k # g
      BY <3>2, <2>2, <1>0, <1>1, <1>2 DEF IInv, LockHeld
    <3> QED BY <3>1, <3>2
  <2> QED BY <2>1, <2>2
<1> QED BY <1>1, <1>3, <1>4, <1>5 DEF IInv

-----------------------------------------------------------------------------
(* The other actions.                                                       *)

\* What Remap makes of an object.
Remapped(x, n, failed) ==
  [x EXCEPT !.size = n, !.unmapped = failed, !.map = IF failed THEN 0 ELSE n]

\* The three ways of Remap.
LEMMA RemapCases ==
    ASSUME NEW h \in Handles, Remap(h)
    PROVE  \/ io[h].mode = "WriteOnly" /\ UNCHANGED <<io, emptied, stale>>
           \/ /\ io[h].mode = "ReadWrite" /\ UNCHANGED <<emptied, stale>>
              /\ Becomes(h, [io[h] EXCEPT !.size = Len(file)])
           \/ /\ io[h].mode = "ReadOnly" /\ emptied' = emptied \ {h} /\ stale' = stale \ {h}
              /\ \E failed \in BOOLEAN : Becomes(h, Remapped(io[h], Len(file), failed))
BY Zenon DEF Remap, Remapped

\* ReadAt and Remap.
LEMMA ReadingInv ==
    ASSUME IInv, NEW h \in Handles
    PROVE  /\ \A off \in 0..MaxSize, len \in 0..MaxSize : ReadAt(h, off, len) => IInv'
           /\ Remap(h) => IInv'
<1>0. IsHandle(io[h])
  BY DEF IInv, HandlesOK
<1>1. ASSUME NEW off \in 0..MaxSize, NEW len \in 0..MaxSize, ReadAt(h, off, len)
      PROVE  IInv'
  <2>1. UNCHANGED <<locks, doubled>>
    BY <1>1 DEF ReadAt, disturbed
  <2> DEFINE w == [io[h] EXCEPT !.buf = At(file, off, len)]
  <2>2. IsHandle(w) /\ w.pc = io[h].pc /\ w.mode = io[h].mode
    BY <1>0 DEF Fields, IsHandle
  <2>3. UNCHANGED io \/ Becomes(h, w)
    BY <1>1 DEF ReadAt
  <2> QED BY <2>1, <2>2, <2>3, QuietHandle, UnchangedInv
<1>2. ASSUME Remap(h) PROVE IInv'
  <2>1. UNCHANGED <<locks, doubled>>
    BY <1>2 DEF Remap
  <2> DEFINE v == [io[h] EXCEPT !.size = Len(file)]
  <2>2. IsHandle(v) /\ v.pc = io[h].pc /\ v.mode = io[h].mode
    BY <1>0 DEF Fields, IsHandle
  <2>3. \A failed \in BOOLEAN :
          LET w == Remapped(io[h], Len(file), failed)
          IN IsHandle(w) /\ w.pc = io[h].pc /\ w.mode = io[h].mode
    BY <1>0 DEF Fields, IsHandle, Remapped
  <2> HIDE DEF v
  <2>4. \/ UNCHANGED io \/ Becomes(h, v)
        \/ \E failed \in BOOLEAN : Becomes(h, Remapped(io[h], Len(file), failed))
    BY <1>2, RemapCases DEF v
  <2> QED BY <2>1, <2>2, <2>3, <2>4, QuietHandle, UnchangedInv
<1> QED BY <1>1, <1>2

\* WriteAt, Append, SetAppendPosition and Truncate change the file and what
\* the handle knows of it, and no lock.
LEMMA WritingInv ==
    ASSUME IInv, NEW h \in Handles
    PROVE  /\ \A off \in 0..MaxSize, data \in Datas : WriteAt(h, off, data) => IInv'
           /\ \A data \in Datas : Append_(h, data) => IInv'
           /\ \A pos \in 0..MaxSize : SetAppendPosition(h, pos) => IInv'
           /\ \A size \in 0..MaxSize : Truncate(h, size) => IInv'
<1>0. IsHandle(io[h])
  BY DEF IInv, HandlesOK
<1>2. ASSUME NEW off \in 0..MaxSize, NEW data \in Datas, WriteAt(h, off, data)
      PROVE  IInv'
  <2> DEFINE v == [io[h] EXCEPT !.size = Larger(@, off + Len(data))]
  <2>1. UNCHANGED <<locks, doubled>> /\ (UNCHANGED io \/ Becomes(h, v))
    BY <1>2 DEF WriteAt
  <2>2. IsHandle(v) /\ v.pc = io[h].pc /\ v.mode = io[h].mode
    BY <1>0 DEF IsHandle, Fields
  <2> HIDE DEF v
  <2> QED BY <2>1, <2>2, QuietHandle, UnchangedInv
<1>3. ASSUME NEW data \in Datas, Append_(h, data)
      PROVE  IInv'
  <2>1. PICK n \in 0..Len(data) :
          UNCHANGED io \/ Becomes(h, [io[h] EXCEPT !.size = Larger(@, io[h].append + n),
                                                   !.append = io[h].append + n])
    BY <1>3 DEF Append_
  <2> DEFINE v == [io[h] EXCEPT !.size = Larger(@, io[h].append + n), !.append = io[h].append + n]
  <2>2. IsHandle(v) /\ v.pc = io[h].pc /\ v.mode = io[h].mode
    BY <1>0 DEF IsHandle, Fields
  <2>3. UNCHANGED <<locks, doubled>>
    BY <1>3 DEF Append_
  <2>4. UNCHANGED io \/ Becomes(h, v)
    BY <2>1
  <2> HIDE DEF v
  <2> QED BY <2>2, <2>3, <2>4, QuietHandle, UnchangedInv
<1>4. ASSUME NEW pos \in 0..MaxSize, SetAppendPosition(h, pos)
      PROVE  IInv'
  <2> DEFINE v == [io[h] EXCEPT !.append = pos]
  <2>1. UNCHANGED <<locks, doubled>> /\ Becomes(h, v)
    BY <1>4 DEF SetAppendPosition, disturbed
  <2>2. IsHandle(v) /\ v.pc = io[h].pc /\ v.mode = io[h].mode
    BY <1>0 DEF IsHandle, Fields
  <2> HIDE DEF v
  <2> QED BY <2>1, <2>2, QuietHandle
<1>5. ASSUME NEW size \in 0..MaxSize, Truncate(h, size)
      PROVE  IInv'
  <2> DEFINE v == [io[h] EXCEPT !.size = size,
                                !.append = IF io[h].append > size THEN size ELSE io[h].append]
  <2>1. UNCHANGED <<locks, doubled>> /\ Becomes(h, v)
    BY <1>5 DEF Truncate
  <2>2. IsHandle(v) /\ v.pc = io[h].pc /\ v.mode = io[h].mode
    BY <1>0 DEF IsHandle, Fields
  <2> HIDE DEF v
  <2> QED BY <2>1, <2>2, QuietHandle
<1> QED BY <1>2, <1>3, <1>4, <1>5

-----------------------------------------------------------------------------
\* Every step of every process keeps the invariant.
LEMMA NextInv == IInv /\ [Next]_vars => IInv'
<1> SUFFICES ASSUME IInv, [Next]_vars PROVE IInv'
  OBVIOUS
<1>1. CASE \E h \in Handles, mode \in Modes : OpenFile(h, mode)
  BY <1>1, OpenFileInv
<1>2. CASE \E h \in Handles : LockFile(h)
  BY <1>2, LockFileInv
<1>3. CASE \E h \in Handles : MapFile(h)
  BY <1>3, MapFileInv
<1>4. CASE \E h \in Handles : Destroy(h)
  BY <1>4, DestroyInv
<1>5. CASE \E h, g \in Handles : Move(h, g)
  BY <1>5, MoveInv
<1>6. CASE \/ \E h \in Handles, off \in 0..MaxSize, len \in 0..MaxSize : ReadAt(h, off, len)
           \/ \E h \in Handles : Remap(h)
  BY <1>6, ReadingInv
<1>7. CASE \/ \E h \in Handles, off \in 0..MaxSize, data \in Datas : WriteAt(h, off, data)
           \/ \E h \in Handles, data \in Datas : Append_(h, data)
           \/ \E h \in Handles, pos \in 0..MaxSize : SetAppendPosition(h, pos)
           \/ \E h \in Handles, size \in 0..MaxSize : Truncate(h, size)
  BY <1>7, WritingInv
<1>8. CASE UNCHANGED vars
  BY <1>8, UnchangedInv DEF vars
<1> QED BY <1>1, <1>2, <1>3, <1>4, <1>5, <1>6, <1>7, <1>8 DEF Next

\* The locks of fcntl keep a writer's process and every other process that
\* works on the file apart, as long as neither of them ever had two handles
\* at once (LockFile, CloseFile of iohandler.cc).
THEOREM LockExclusionHolds == Spec => []LockExclusion
<1>1. Init => IInv
  BY InitInv
<1>2. IInv /\ [Next]_vars => IInv'
  BY NextInv
<1>3. IInv => LockExclusion
  BY InvImpliesExclusion
<1> QED BY <1>1, <1>2, <1>3, PTL DEF Spec

-----------------------------------------------------------------------------
(* What an object knows of the file.                                        *)

\* The states of the constructor.
Pcs == {"closed", "opened", "locked", "ready"}

\* The fields of an object: its state, numbers of bytes, the scratch buffer.
WellTyped(x) ==
  /\ x.pc \in Pcs
  /\ x.size \in Nat /\ x.append \in Nat /\ x.map \in Nat
  /\ x.buf \in Seq(Nat)

\* l is what f starts with, up to position n.
Begins(l, f, n) == Len(l) = n /\ n <= Len(f) /\ \A i \in 1..n : l[i] = f[i]

\* What the object x, whose ghost log is l, knows of the file f.
Knows(f, x, l) ==
  /\ x.size <= Len(f)
  /\ x.pc = "ready" /\ x.mode = "ReadOnly" => x.map = x.size \/ x.unmapped
  /\ Writes(x.mode) => Begins(l, f, x.append)

\* What the spans vs of the object x show when it has a map.
Show(f, x, vs) ==
  x.mode = "ReadOnly" => \A v \in vs : At(f, v.off, v.len) = v.bytes

\* The handles somebody has worked beside.
excused == emptied \union stale

\* Of one handle, from OpenFile on: what it knows is true before it has its
\* lock already, unless the file was changed in between.
HandleOK(h) ==
  /\ WellTyped(io[h]) /\ log[h] \in Seq(Nat)
  /\ io[h].pc # "closed" /\ Undisturbed(h) => Knows(file, io[h], log[h])
  /\ Undisturbed(h) => Show(file, io[h], views[h])
  /\ views[h] # {} => io[h].pc = "ready" /\ io[h].mode # "WriteOnly"

FileOK ==
  /\ file \in Seq(Nat)
  /\ DOMAIN log = Handles /\ DOMAIN views = Handles

FInv == IInv /\ FileOK /\ \A h \in Handles : HandleOK(h)

-----------------------------------------------------------------------------
(* The operators on bytes.                                                  *)

\* The first n bytes.
LEMMA FirstBytes ==
    ASSUME NEW s \in Seq(Nat), NEW n \in Nat, n <= Len(s)
    PROVE  At(s, 0, n) \in Seq(Nat) /\ Begins(At(s, 0, n), s, n)
<1>1. At(s, 0, n) = SubSeq(s, 1, n)
  BY LenProperties DEF At, Smaller
<1>2. \A i \in 1..n : s[i] \in Nat
  BY ElementOfSeq, LenProperties
<1>3. /\ SubSeq(s, 1, n) \in Seq(Nat)
      /\ Len(SubSeq(s, 1, n)) = IF 1 <= n THEN n - 1 + 1 ELSE 0
      /\ \A i \in 1..n - 1 + 1 : SubSeq(s, 1, n)[i] = s[1 + i - 1]
  BY <1>2, SubSeqProperties
<1> QED BY <1>1, <1>3 DEF Begins

\* No more bytes than there are.
LEMMA BytesOfAt ==
    ASSUME NEW s \in Seq(Nat), NEW n \in Nat
    PROVE  At(s, 0, n) \in Seq(Nat)
<1> DEFINE k == IF n < Len(s) THEN n ELSE Len(s)
<1>1. k \in Nat /\ k <= Len(s) /\ At(s, 0, n) = At(s, 0, k)
  BY LenProperties DEF At, Smaller
<1> QED BY <1>1, FirstBytes

\* Begins says what At says.
LEMMA BeginsIsAt ==
    ASSUME NEW l \in Seq(Nat), NEW f \in Seq(Nat), NEW n \in Nat, Begins(l, f, n)
    PROVE  n <= Len(f) /\ At(f, 0, n) = l
<1>1. n <= Len(f)
  BY DEF Begins
<1>2. At(f, 0, n) \in Seq(Nat) /\ Begins(At(f, 0, n), f, n)
  BY <1>1, FirstBytes
<1> QED BY <1>1, <1>2, SeqEqual DEF Begins

\* Bytes that are read from within the file are as many as were asked for.
LEMMA ReadBytes ==
    ASSUME NEW f \in Seq(Nat), NEW off \in Nat, NEW len \in Nat, off + len <= Len(f)
    PROVE  At(f, off, len) \in Seq(Nat) /\ At(At(f, off, len), 0, len) = At(f, off, len)
<1> DEFINE b == At(f, off, len)
<1>1. b = SubSeq(f, off + 1, off + len)
  <2>1. Len(f) \in Nat /\ off + len \in Nat
    BY LenProperties
  <2>2. Smaller(off + len, Len(f)) = off + len
    BY <2>1 DEF Smaller
  <2> QED BY <2>2 DEF At
<1>2. \A i \in off + 1..off + len : f[i] \in Nat
  BY ElementOfSeq, LenProperties
<1>3. /\ SubSeq(f, off + 1, off + len) \in Seq(Nat)
      /\ Len(SubSeq(f, off + 1, off + len))
           = IF off + 1 <= off + len THEN off + len - (off + 1) + 1 ELSE 0
  BY <1>2, SubSeqProperties
<1>4. b \in Seq(Nat) /\ Len(b) = len
  BY <1>1, <1>3
<1> HIDE DEF b
<1>5. Begins(b, b, len)
  BY <1>4 DEF Begins
<1> QED BY <1>4, <1>5, BeginsIsAt DEF b

\* A function from an interval is a sequence.
LEMMA IntervalIsSeq ==
    ASSUME NEW n \in Nat, NEW s, DOMAIN s = 1..n, s = [i \in 1..n |-> s[i]],
           \A i \in 1..n : s[i] \in Nat
    PROVE  s \in Seq(Nat) /\ Len(s) = n
OBVIOUS

\* A write changes the bytes it is about, and may fill up a hole.
LEMMA BytesWritten ==
    ASSUME NEW f \in Seq(Nat), NEW off \in Nat, NEW d \in Seq(Nat)
    PROVE  /\ Written(f, off, d) \in Seq(Nat)
           /\ Len(Written(f, off, d)) = Larger(Len(f), off + Len(d))
           /\ \A i \in 1..Larger(Len(f), off + Len(d)) :
                Written(f, off, d)[i] = IF i > off /\ i <= off + Len(d) THEN d[i - off]
                                        ELSE IF i <= Len(f) THEN f[i] ELSE 0
<1> DEFINE n == Larger(Len(f), off + Len(d))
           w == Written(f, off, d)
<1>1. n \in Nat /\ Len(f) \in Nat /\ Len(d) \in Nat
  BY LenProperties DEF Larger
<1>2. /\ DOMAIN w = 1..n /\ w = [i \in 1..n |-> w[i]]
      /\ \A i \in 1..n : w[i] = IF i > off /\ i <= off + Len(d) THEN d[i - off]
                                ELSE IF i <= Len(f) THEN f[i] ELSE 0
  BY DEF Written
<1> HIDE DEF w, n
<1>3. \A i \in 1..n : w[i] \in Nat
  <2> TAKE i \in 1..n
  <2>1. CASE i > off /\ i <= off + Len(d)
    <3>1. i - off \in 1..Len(d)
      BY <2>1, <1>1
    <3> QED BY <3>1, <2>1, <1>2, ElementOfSeq
  <2>2. CASE ~(i > off /\ i <= off + Len(d)) /\ i <= Len(f)
    <3>1. i \in 1..Len(f)
      BY <2>2, <1>1
    <3> QED BY <3>1, <2>2, <1>2, ElementOfSeq
  <2>3. CASE ~(i > off /\ i <= off + Len(d)) /\ ~(i <= Len(f))
    BY <2>3, <1>2
  <2> QED BY <2>1, <2>2, <2>3
<1>4. w \in Seq(Nat) /\ Len(w) = n
  BY <1>1, <1>2, <1>3, IntervalIsSeq
<1> QED BY <1>2, <1>4 DEF w, n

\* The bytes of a buffer that were written before an error.
LEMMA PartWritten ==
    ASSUME NEW d \in Seq(Nat), NEW n \in 0..Len(d)
    PROVE  /\ SubSeq(d, 1, n) \in Seq(Nat) /\ Len(SubSeq(d, 1, n)) = n
           /\ \A i \in 1..n : SubSeq(d, 1, n)[i] = d[i]
<1>1. n \in Nat /\ Len(d) \in Nat /\ n <= Len(d)
  BY LenProperties
<1>2. At(d, 0, n) = SubSeq(d, 1, n)
  BY <1>1 DEF At, Smaller
<1> QED BY <1>1, <1>2, FirstBytes DEF Begins

\* A write through the log at a place: the beginning stays the log's.
LEMMA BeginsWritten ==
    ASSUME NEW l \in Seq(Nat), NEW f \in Seq(Nat), NEW n \in Nat, Begins(l, f, n),
           NEW off \in Nat, NEW d \in Seq(Nat)
    PROVE  /\ At(Written(l, off, d), 0, n) \in Seq(Nat)
           /\ Begins(At(Written(l, off, d), 0, n), Written(f, off, d), n)
<1> DEFINE wl == Written(l, off, d)
           wf == Written(f, off, d)
<1>0. Len(l) \in Nat /\ Len(f) \in Nat /\ Len(d) \in Nat
  BY LenProperties
<1>1. /\ wl \in Seq(Nat) /\ Len(wl) = Larger(n, off + Len(d))
      /\ \A i \in 1..Len(wl) :
           wl[i] = IF i > off /\ i <= off + Len(d) THEN d[i - off]
                   ELSE IF i <= n THEN l[i] ELSE 0
  <2>1. Len(l) = n
    BY DEF Begins
  <2>2. /\ wl \in Seq(Nat) /\ Len(wl) = Larger(Len(l), off + Len(d))
        /\ \A i \in 1..Larger(Len(l), off + Len(d)) :
             wl[i] = IF i > off /\ i <= off + Len(d) THEN d[i - off]
                     ELSE IF i <= Len(l) THEN l[i] ELSE 0
    BY BytesWritten
  <2> HIDE DEF wl
  <2> QED BY <2>1, <2>2
<1>2. /\ wf \in Seq(Nat) /\ Len(wf) = Larger(Len(f), off + Len(d))
      /\ \A i \in 1..Len(wf) :
           wf[i] = IF i > off /\ i <= off + Len(d) THEN d[i - off]
                   ELSE IF i <= Len(f) THEN f[i] ELSE 0
  BY BytesWritten
<1> HIDE DEF wl, wf
<1>3. n <= Len(wl) /\ n <= Len(wf) /\ n <= Len(f)
  BY <1>0, <1>1, <1>2 DEF Larger, Begins
<1>4. \A i \in 1..n : wl[i] = wf[i]
  <2> TAKE i \in 1..n
  <2>1. i \in 1..Len(wl) /\ i \in 1..Len(wf) /\ i <= n /\ i <= Len(f)
    BY <1>0, <1>1, <1>2, <1>3 DEF Larger
  <2> QED BY <2>1, <1>1, <1>2 DEF Begins
<1>5. At(wl, 0, n) \in Seq(Nat) /\ Begins(At(wl, 0, n), wl, n)
  BY <1>1, <1>3, FirstBytes
<1> QED BY <1>3, <1>4, <1>5 DEF Begins, wl, wf

\* What is appended behind position n.
LEMMA BeginsAppended ==
    ASSUME NEW l \in Seq(Nat), NEW f \in Seq(Nat), NEW n \in Nat, Begins(l, f, n),
           NEW d \in Seq(Nat)
    PROVE  /\ l \o d \in Seq(Nat)
           /\ Begins(l \o d, Written(f, n, d), n + Len(d))
           /\ Begins(l, Written(f, n, d), n)
<1> DEFINE wf == Written(f, n, d)
<1>0. Len(l) = n /\ n <= Len(f) /\ Len(f) \in Nat /\ Len(d) \in Nat
  BY LenProperties DEF Begins
<1>1. /\ wf \in Seq(Nat) /\ Len(wf) = Larger(Len(f), n + Len(d))
      /\ \A i \in 1..Len(wf) :
           wf[i] = IF i > n /\ i <= n + Len(d) THEN d[i - n]
                   ELSE IF i <= Len(f) THEN f[i] ELSE 0
  BY BytesWritten
<1>2. /\ l \o d \in Seq(Nat) /\ Len(l \o d) = n + Len(d)
      /\ \A i \in 1..n + Len(d) : (l \o d)[i] = IF i <= n THEN l[i] ELSE d[i - n]
  BY <1>0, ConcatProperties
<1> HIDE DEF wf
<1>3. n + Len(d) <= Len(wf)
  BY <1>0, <1>1 DEF Larger
<1>4. \A i \in 1..n + Len(d) : wf[i] = IF i <= n THEN l[i] ELSE d[i - n]
  <2> TAKE i \in 1..n + Len(d)
  <2>1. i \in 1..Len(wf)
    BY <1>0, <1>3
  <2>2. CASE i <= n
    <3>1. i \in 1..n /\ i <= Len(f) /\ ~(i > n)
      BY <2>2, <1>0
    <3>2. wf[i] = f[i]
      BY <3>1, <2>1, <1>1
    <3>3. l[i] = f[i]
      BY <3>1 DEF Begins
    <3> QED BY <3>2, <3>3, <2>2
  <2>3. CASE i > n
    BY <2>1, <2>3, <1>0, <1>1
  <2> QED BY <2>2, <2>3, <1>0
<1>5. Begins(l \o d, wf, n + Len(d))
  BY <1>2, <1>3, <1>4 DEF Begins
<1>6. Begins(l, wf, n)
  <2>1. \A i \in 1..n : i \in 1..n + Len(d) /\ i <= n
    BY <1>0
  <2>2. \A i \in 1..n : l[i] = wf[i]
    BY <2>1, <1>4
  <2>3. n <= Len(wf)
    BY <1>0, <1>1, <1>3
  <2> QED BY <1>0, <2>2, <2>3 DEF Begins
<1> QED BY <1>2, <1>5, <1>6 DEF wf

\* The beginning of a beginning, of a file that agrees as far as that.
LEMMA BeginsCut ==
    ASSUME NEW l \in Seq(Nat), NEW f \in Seq(Nat), NEW n \in Nat, Begins(l, f, n),
           NEW k \in Nat, k <= n,
           NEW g \in Seq(Nat), k <= Len(g), \A i \in 1..k : g[i] = f[i]
    PROVE  At(l, 0, k) \in Seq(Nat) /\ Begins(At(l, 0, k), g, k)
<1>1. k <= Len(l)
  BY DEF Begins
<1> DEFINE b == At(l, 0, k)
<1>2. b \in Seq(Nat) /\ Begins(b, l, k)
  BY <1>1, FirstBytes
<1> HIDE DEF b
<1>3. \A i \in 1..k : b[i] = g[i]
  <2> TAKE i \in 1..k
  <2>1. i \in 1..n
    OBVIOUS
  <2>2. b[i] = l[i]
    BY <1>2 DEF Begins
  <2>3. l[i] = f[i]
    BY <2>1 DEF Begins
  <2> QED BY <2>2, <2>3
<1> QED BY <1>2, <1>3 DEF Begins, b

\* ftruncate.
LEMMA Lengthened ==
    ASSUME NEW f \in Seq(Nat), NEW n \in Nat, NEW g,
           g = [i \in 1..n |-> IF i <= Len(f) THEN f[i] ELSE 0]
    PROVE  /\ g \in Seq(Nat) /\ Len(g) = n
           /\ \A i \in 1..n : i <= Len(f) => g[i] = f[i]
<1>1. DOMAIN g = 1..n /\ g = [i \in 1..n |-> g[i]]
  OBVIOUS
<1>2. \A i \in 1..n : g[i] = IF i <= Len(f) THEN f[i] ELSE 0
  OBVIOUS
<1>3. \A i \in 1..n : g[i] \in Nat
  <2> TAKE i \in 1..n
  <2>1. CASE i <= Len(f)
    <3>1. i \in 1..Len(f)
      BY <2>1, LenProperties
    <3> QED BY <3>1, <2>1, <1>2, ElementOfSeq
  <2>2. CASE ~(i <= Len(f))
    BY <2>2, <1>2
  <2> QED BY <2>1, <2>2
<1>4. g \in Seq(Nat) /\ Len(g) = n
  BY <1>1, <1>3, IntervalIsSeq
<1> QED BY <1>2, <1>4

-----------------------------------------------------------------------------
(* What one handle's step is to the others.                                 *)

\* Beside a writer no handle has got past LockFile: one of another process
\* did not get the lock, and another one of the process would have doubled it.
LEMMA NobodyBeside ==
    ASSUME IInv, doubled = {}, NEW g \in Handles, NEW h \in Handles, h # g, Writer(g),
           io[h].pc # "closed", io[h].pc # "opened",
           io[h].pc \in {"closed", "opened", "locked", "ready"}
    PROVE  FALSE
<1>1. Owner[h] # Owner[g]
  BY DEF IInv, SingleHandle, Writer, Ready
<1>2. locks[Owner[g]] = "write" /\ locks[Owner[h]] \in {"read", "write"}
  BY DEF IInv, LockHeld, Writer, Ready, LockType, Writes
<1> QED BY <1>1, <1>2, OwnerIsProc DEF IInv, WriteLockAlone

\* A handle stays sound when a step leaves it alone, and either leaves the
\* file alone, too, or counts it as disturbed.
LEMMA OtherHandle ==
    ASSUME NEW g \in Handles, HandleOK(g),
           io'[g] = io[g], log'[g] = log[g], views'[g] = views[g],
           io[g].pc # "closed" /\ Undisturbed(g)' => file' = file /\ Undisturbed(g)
    PROVE  HandleOK(g)'
<1>1. io[g].pc = "closed" => views[g] = {}
  BY DEF HandleOK
<1>2. /\ WellTyped(io[g])' /\ (log[g] \in Seq(Nat))'
      /\ (views[g] # {} => io[g].pc = "ready" /\ io[g].mode # "WriteOnly")'
  BY DEF HandleOK
<1>3. CASE io[g].pc = "closed"
  BY <1>1, <1>2, <1>3 DEF HandleOK, Show
<1>4. CASE io[g].pc # "closed"
  BY <1>2, <1>4 DEF HandleOK
<1> QED BY <1>3, <1>4

\* A step of h is shown to be sound for h and not to deceive the others.
LEMMA OwnStep ==
    ASSUME FInv, IInv', FileOK', NEW h \in Handles,
           \A g \in Handles :
             g # h => io'[g] = io[g] /\ log'[g] = log[g] /\ views'[g] = views[g],
           \A g \in Handles :
             g # h /\ io[g].pc # "closed" /\ Undisturbed(g)' => file' = file /\ Undisturbed(g),
           HandleOK(h)'
    PROVE  FInv'
<1>2. ASSUME NEW g \in Handles, g # h PROVE HandleOK(g)'
  <2>1. log'[g] = log[g] /\ views'[g] = views[g] /\ HandleOK(g) /\ io'[g] = io[g]
    BY <1>2 DEF FInv
  <2>2. io[g].pc # "closed" /\ Undisturbed(g)' => file' = file /\ Undisturbed(g)
    BY <1>2
  <2> QED BY <2>1, <2>2, OtherHandle
<1> QED BY <1>2 DEF FInv

\* What a writer writes disturbs everyone who is not beyond LockFile, and
\* nobody is.
LEMMA WriterStep ==
    ASSUME FInv, NEW h \in Handles, Writer(h),
           excused' = excused \union Unlocked(h), UNCHANGED doubled,
           NEW g \in Handles, g # h, io[g].pc # "closed", Undisturbed(g)'
    PROVE  FALSE
<1>1. doubled = {} /\ io[g].pc # "opened"
  BY DEF Undisturbed, excused, Unlocked
<1>2. IInv /\ io[g].pc \in {"closed", "opened", "locked", "ready"}
  BY DEF FInv, HandleOK, WellTyped, Pcs
<1> QED BY <1>1, <1>2, NobodyBeside

-----------------------------------------------------------------------------
(* The constructor and the destructor.                                      *)

\* A handle that is closed knows nothing.
LEMMA ClosedHandleOK ==
    ASSUME FInv, NEW h \in Handles, io[h] = Closed, log[h] \in Seq(Nat), views[h] = {}
    PROVE  HandleOK(h)
BY EmptySeq DEF HandleOK, WellTyped, Closed, Pcs, Show

\* The size taken before the lock is the file's, and so is the log.
LEMMA OpenFileSound ==
    ASSUME FInv, NEW h \in Handles, NEW mode \in Modes, OpenFile(h, mode)
    PROVE  FInv'
<1>0. io[h].pc = "closed" /\ views[h] = {} /\ UNCHANGED views
  BY DEF OpenFile, FInv, HandleOK
<1>1. IInv'
  BY OpenFileInv DEF FInv
<1>2. file \in Seq(Nat) /\ <<>> \in Seq(Nat) /\ Len(<<>>) = 0 /\ Len(file) \in Nat
  BY EmptySeq, LenProperties DEF FInv, FileOK
<1>3. file' \in Seq(Nat) /\ Len(file') \in Nat
  BY <1>2 DEF OpenFile
<1> DEFINE size == IF mode = "WriteOnly" THEN 0 ELSE Len(file)
           v == [Closed EXCEPT !.pc = "opened", !.mode = mode, !.size = size, !.append = size]
<1>4. Becomes(h, v) /\ size = Len(file')
  BY <1>2 DEF OpenFile
<1>5. /\ IsHandle(v) /\ WellTyped(v)
      /\ v.pc = "opened" /\ v.mode = mode /\ v.size = size /\ v.append = size
  BY <1>2 DEF Closed, IsHandle, Fields, WellTyped, Pcs, Modes
<1> HIDE DEF v, size
<1>6. io'[h] = v /\ \A g \in Handles : g # h => io'[g] = io[g]
  BY <1>4, <1>5, OneHandle DEF FInv, IInv
<1>7. /\ FileOK' /\ log'[h] = file'
      /\ \A g \in Handles : g # h => log'[g] = log[g] /\ views'[g] = views[g]
  BY <1>0, <1>3 DEF OpenFile, FInv, FileOK
<1>8. ASSUME NEW g \in Handles, g # h, io[g].pc # "closed", Undisturbed(g)'
      PROVE  file' = file /\ Undisturbed(g)
  <2>1. g \notin emptied' /\ g \notin stale' /\ doubled' = {}
    BY <1>8 DEF Undisturbed, excused
  <2>2. mode # "WriteOnly"
    BY <1>8, <2>1 DEF OpenFile
  <2>3. doubled = {}
    BY <2>1 DEF OpenFile
  <2>4. file' = file /\ emptied \subseteq emptied' /\ stale' = stale
    BY <2>2 DEF OpenFile
  <2> QED BY <2>1, <2>3, <2>4 DEF Undisturbed, excused
<1>9. HandleOK(h)'
  <2>1. Begins(file', file', Len(file'))
    BY <1>3 DEF Begins
  <2>2. Knows(file', v, file')
    BY <2>1, <1>3, <1>4, <1>5 DEF Knows
  <2> QED BY <1>0, <1>3, <1>5, <1>6, <1>7, <2>2 DEF HandleOK, Show
<1> QED BY <1>1, <1>6, <1>7, <1>8, <1>9, OwnStep

\* A step of the constructor that gives up or goes on, with the file as it is.
LEMMA ConstructorStep ==
    ASSUME FInv, IInv', NEW h \in Handles, io[h].pc \in {"opened", "locked"},
           UNCHANGED <<file, views, doubled>>,
           NEW v, IsHandle(v), WellTyped(v), Becomes(h, v), Forget(h, io'[h].pc = "closed"),
           v.pc # "closed" => \A f, l : Knows(f, io[h], l) => Knows(f, v, l)
    PROVE  FInv'
<1>1. io'[h] = v /\ \A g \in Handles : g # h => io'[g] = io[g]
  BY OneHandle DEF FInv, IInv
<1>2. views[h] = {}
  BY DEF FInv, HandleOK
<1>3. /\ FileOK' /\ log'[h] \in Seq(Nat)
      /\ \A g \in Handles : g # h => log'[g] = log[g] /\ views'[g] = views[g]
  BY EmptySeq DEF Forget, FInv, FileOK, HandleOK
<1>4. \A g \in Handles :
        g # h /\ io[g].pc # "closed" /\ Undisturbed(g)' => file' = file /\ Undisturbed(g)
  BY DEF Undisturbed, excused, Forget
<1>5. HandleOK(h)'
  <2>1. CASE v.pc = "closed"
    BY <2>1, <1>1, <1>2, <1>3 DEF HandleOK, Show
  <2>2. CASE v.pc # "closed"
    <3>1. UNCHANGED <<log, excused>>
      BY <2>2, <1>1 DEF Forget, excused
    <3>2. Undisturbed(h)' => Knows(file, io[h], log[h])
      BY <3>1 DEF FInv, HandleOK, Undisturbed, excused
    <3>3. Undisturbed(h)' => Knows(file', v, log'[h])
      BY <3>1, <3>2, <2>2
    <3> QED BY <3>3, <1>1, <1>2, <1>3 DEF HandleOK, Show
  <2> QED BY <2>1, <2>2
<1> QED BY <1>1, <1>3, <1>4, <1>5, OwnStep

\* The lock changes nothing of what the handle knows.
LEMMA LockFileSound ==
    ASSUME FInv, NEW h \in Handles, LockFile(h)
    PROVE  FInv'
<1>0. IInv' /\ IsHandle(io[h]) /\ WellTyped(io[h])
  BY LockFileInv DEF FInv, IInv, HandlesOK, HandleOK
<1>1. io[h].pc = "opened" /\ UNCHANGED <<file, views, doubled>> /\ Forget(h, io'[h].pc = "closed")
  BY DEF LockFile
<1> DEFINE w == [io[h] EXCEPT !.pc = IF Writes(io[h].mode) THEN "ready" ELSE "locked"]
<1>2. Becomes(h, w) \/ Becomes(h, Closed)
  BY DEF LockFile
<1>3. IsHandle(Closed) /\ WellTyped(Closed) /\ Closed.pc = "closed"
  BY ClosedIsHandle, EmptySeq DEF WellTyped, Closed, Pcs
<1>4. /\ IsHandle(w) /\ WellTyped(w) /\ w.pc = (IF Writes(io[h].mode) THEN "ready" ELSE "locked")
      /\ w.mode = io[h].mode /\ w.size = io[h].size /\ w.append = io[h].append
  BY <1>0 DEF IsHandle, Fields, WellTyped, Pcs
<1> HIDE DEF w
<1>5. \A f, l : Knows(f, io[h], l) => Knows(f, w, l)
  BY <1>4 DEF Knows, Writes
<1>6. CASE Becomes(h, w)
  BY <1>0, <1>1, <1>4, <1>5, <1>6, ConstructorStep
<1>7. CASE Becomes(h, Closed)
  BY <1>0, <1>1, <1>3, <1>7, ConstructorStep
<1> QED BY <1>2, <1>6, <1>7

\* The map is of the size that was taken when the file was opened.
LEMMA MapFileSound ==
    ASSUME FInv, NEW h \in Handles, MapFile(h)
    PROVE  FInv'
<1>0. IInv' /\ IsHandle(io[h]) /\ WellTyped(io[h])
  BY MapFileInv DEF FInv, IInv, HandlesOK, HandleOK
<1>1. io[h].pc = "locked" /\ UNCHANGED <<file, views, doubled>> /\ Forget(h, io'[h].pc = "closed")
  BY DEF MapFile
<1> DEFINE w == [io[h] EXCEPT !.pc = "ready", !.map = io[h].size]
<1>2. Becomes(h, w) \/ Becomes(h, Closed)
  BY DEF MapFile
<1>3. IsHandle(Closed) /\ WellTyped(Closed) /\ Closed.pc = "closed"
  BY ClosedIsHandle, EmptySeq DEF WellTyped, Closed, Pcs
<1>4. /\ IsHandle(w) /\ WellTyped(w) /\ w.map = w.size
      /\ w.mode = io[h].mode /\ w.size = io[h].size /\ w.append = io[h].append
  BY <1>0 DEF IsHandle, Fields, WellTyped, Pcs
<1> HIDE DEF w
<1>5. \A f, l : Knows(f, io[h], l) => Knows(f, w, l)
  BY <1>4 DEF Knows
<1>6. CASE Becomes(h, w)
  BY <1>0, <1>1, <1>4, <1>5, <1>6, ConstructorStep
<1>7. CASE Becomes(h, Closed)
  BY <1>0, <1>1, <1>3, <1>7, ConstructorStep
<1> QED BY <1>2, <1>6, <1>7

\* What is left of a handle that was destroyed claims nothing.
LEMMA DestroySound ==
    ASSUME FInv, NEW h \in Handles, Destroy(h)
    PROVE  FInv'
<1>1. IInv'
  BY DestroyInv DEF FInv
<1>2. /\ views' = [views EXCEPT ![h] = {}] /\ UNCHANGED <<file, doubled>>
      /\ log' = [log EXCEPT ![h] = <<>>] /\ excused' = excused \ {h}
  BY DEF Destroy, Forget, excused
<1>3. PICK v : IsHandle(v) /\ WellTyped(v) /\ v.pc = "closed" /\ Becomes(h, v)
  <2> DEFINE w == CloseFile(UnmapFile(io[h]))
  <2>1. IsHandle(io[h]) /\ WellTyped(io[h])
    BY DEF FInv, IInv, HandlesOK, HandleOK
  <2>2. IsHandle(w) /\ WellTyped(w) /\ w.pc = "closed"
    BY <2>1, EmptySeq DEF CloseFile, UnmapFile, Closed, IsHandle, Fields, WellTyped, Pcs, Modes
  <2> QED BY <2>2 DEF Destroy
<1>4. io'[h] = v /\ \A g \in Handles : g # h => io'[g] = io[g]
  BY <1>3, OneHandle DEF FInv, IInv
<1>5. /\ FileOK' /\ log'[h] = <<>> /\ views'[h] = {}
      /\ \A g \in Handles : g # h => log'[g] = log[g] /\ views'[g] = views[g]
  BY <1>2 DEF FInv, FileOK
<1>6. \A g \in Handles :
        g # h /\ io[g].pc # "closed" /\ Undisturbed(g)' => file' = file /\ Undisturbed(g)
  BY <1>2 DEF Undisturbed, excused
<1>7. HandleOK(h)'
  BY <1>2, <1>3, <1>4, <1>5, EmptySeq DEF HandleOK, Show
<1> QED BY <1>1, <1>4, <1>5, <1>6, <1>7, OwnStep

\* The target of a move knows what the source knew.
LEMMA MoveSound ==
    ASSUME FInv, NEW h \in Handles, NEW g \in Handles, Move(h, g)
    PROVE  FInv'
<1>1. IInv'
  BY MoveInv DEF FInv
<1>2. /\ h # g /\ UNCHANGED <<file, doubled>>
      /\ views' = [views EXCEPT ![g] = IF io[h].mode = "ReadOnly" THEN views[h] ELSE {},
                                ![h] = {}]
      /\ log' = [log EXCEPT ![g] = log[h], ![h] = <<>>]
      /\ io' = [io EXCEPT ![g] = io[h], ![h] = Closed]
      /\ excused' = (excused \ {g, h}) \union (IF h \in excused THEN {g} ELSE {})
  BY DEF Move, Moved, excused
<1>3. /\ io'[g] = io[h] /\ io'[h] = Closed
      /\ \A k \in Handles \ {g, h} : io'[k] = io[k]
  BY <1>2 DEF FInv, IInv, HandlesOK
<1>4. /\ FileOK' /\ log'[g] = log[h] /\ log'[h] = <<>> /\ views'[h] = {}
      /\ views'[g] = {} \/ (views'[g] = views[h] /\ io[h].mode = "ReadOnly")
      /\ \A k \in Handles \ {g, h} : log'[k] = log[k] /\ views'[k] = views[k]
  BY <1>2 DEF FInv, FileOK
<1>5. HandleOK(h)'
  <2>1. WellTyped(Closed) /\ Closed.pc = "closed"
    BY EmptySeq DEF WellTyped, Closed, Pcs
  <2> QED BY <1>2, <1>3, <1>4, <2>1, EmptySeq DEF HandleOK, Show
<1>6. HandleOK(g)'
  <2>1. Undisturbed(g)' => Undisturbed(h)
    BY <1>2 DEF Undisturbed, excused
  <2>2. HandleOK(h)
    BY DEF FInv
  <2> QED BY <1>2, <1>3, <1>4, <2>1, <2>2 DEF HandleOK, Show
<1>7. ASSUME NEW k \in Handles \ {g, h} PROVE HandleOK(k)'
  <2>1. Undisturbed(k)' => file' = file /\ Undisturbed(k)
    BY <1>2 DEF Undisturbed, excused
  <2>2. HandleOK(k)
    BY DEF FInv
  <2> QED BY <1>3, <1>4, <2>1, <2>2, OtherHandle
<1> QED BY <1>1, <1>4, <1>5, <1>6, <1>7 DEF FInv

-----------------------------------------------------------------------------
(* Reading.                                                                 *)

\* A step of h that leaves the file and the ghosts of all handles alone.
LEMMA QuietSound ==
    ASSUME FInv, IInv', NEW h \in Handles, NEW v, IsHandle(v),
           UNCHANGED io \/ Becomes(h, v), UNCHANGED <<file, log, doubled>>,
           NEW vs, views' = [views EXCEPT ![h] = vs] \/ UNCHANGED views,
           \A g \in Handles : g # h => (g \in excused' <=> g \in excused),
           HandleOK(h)'
    PROVE  FInv'
<1>1. \A g \in Handles : g # h => io'[g] = io[g]
  BY OneHandle DEF FInv, IInv
<1>2. FileOK' /\ \A g \in Handles : g # h => log'[g] = log[g] /\ views'[g] = views[g]
  BY DEF FInv, FileOK
<1>3. \A g \in Handles :
        g # h /\ io[g].pc # "closed" /\ Undisturbed(g)' => file' = file /\ Undisturbed(g)
  BY DEF Undisturbed, excused
<1> QED BY <1>1, <1>2, <1>3, OwnStep

\* A span of the map shows the file; one of the buffer is no concern of Show.
LEMMA ReadAtSound ==
    ASSUME FInv, NEW h \in Handles, NEW off \in 0..MaxSize, NEW len \in 0..MaxSize,
           ReadAt(h, off, len)
    PROVE  FInv'
<1> DEFINE b  == At(file, off, len)
           w  == [io[h] EXCEPT !.buf = b]
           vs == views[h] \union {[off |-> off, len |-> len, bytes |-> b]}
<1>0. /\ IInv' /\ IsHandle(io[h]) /\ HandleOK(h) /\ WellTyped(io[h])
      /\ io[h].pc = "ready" /\ io[h].mode # "WriteOnly" /\ file \in Seq(Nat)
  BY ReadingInv DEF FInv, IInv, HandlesOK, HandleOK, FileOK, ReadAt, Ready
<1>1. /\ off \in Nat /\ len \in Nat /\ off + len <= Len(file)
      /\ UNCHANGED <<file, log, excused, doubled>>
      /\ views' = [views EXCEPT ![h] = vs]
      /\ IF io[h].mode = "ReadOnly" THEN UNCHANGED io ELSE Becomes(h, w)
  <2>1. off \in Nat /\ len \in Nat /\ off + len <= Len(file)
    BY IOAssumption DEF IOAssumption, ReadAt
  <2>2. UNCHANGED <<file, log, excused, doubled>>
    BY DEF ReadAt, disturbed, excused
  <2> QED BY <2>1, <2>2 DEF ReadAt, FInv, FileOK
<1>2. b \in Seq(Nat)
  BY <1>0, <1>1, ReadBytes
<1>3. /\ IsHandle(w) /\ WellTyped(w) /\ w.pc = io[h].pc /\ w.mode = io[h].mode
      /\ w.size = io[h].size /\ w.append = io[h].append /\ w.map = io[h].map
      /\ w.unmapped = io[h].unmapped
  <2> HIDE DEF b
  <2> QED BY <1>0, <1>2 DEF IsHandle, Fields, WellTyped
<1>4. views'[h] = vs
  BY <1>1 DEF FInv, FileOK
<1>5. \A v \in vs : v \in views[h] \/ (v.off = off /\ v.len = len /\ v.bytes = b)
  OBVIOUS
<1> HIDE DEF w, vs
<1>6. HandleOK(h)'
  <2>1. CASE io[h].mode = "ReadOnly"
    <3>1. UNCHANGED io
      BY <2>1, <1>1
    <3>2. Undisturbed(h)' => Show(file', io'[h], views'[h])
      BY <3>1, <1>0, <1>1, <1>4, <1>5 DEF Show, HandleOK, Undisturbed, excused
    <3> QED BY <3>1, <3>2, <1>0, <1>1 DEF HandleOK, Undisturbed, excused
  <2>2. CASE io[h].mode # "ReadOnly"
    <3>1. io'[h] = w
      BY <2>2, <1>1, <1>3, OneHandle DEF FInv, IInv
    <3>2. Show(file', io'[h], views'[h])
      BY <3>1, <2>2, <1>3 DEF Show
    <3>3. \A f, l : Knows(f, io[h], l) => Knows(f, w, l)
      BY <1>3 DEF Knows
    <3> QED BY <3>1, <3>2, <3>3, <1>0, <1>1, <1>3 DEF HandleOK, Undisturbed, excused
  <2> QED BY <2>1, <2>2
<1> QED BY <1>0, <1>1, <1>3, <1>6, QuietSound

\* Remap asks the file for its size, and ends all spans.
LEMMA RemapSound ==
    ASSUME FInv, NEW h \in Handles, Remap(h)
    PROVE  FInv'
<1> DEFINE n == Len(file)
           v == [io[h] EXCEPT !.size = n]
<1>0. /\ IInv' /\ IsHandle(io[h]) /\ HandleOK(h) /\ WellTyped(io[h]) /\ n \in Nat
  BY ReadingInv, LenProperties DEF FInv, IInv, HandlesOK, HandleOK, FileOK
<1>1. /\ UNCHANGED <<file, log, doubled>> /\ views' = [views EXCEPT ![h] = {}]
      /\ views'[h] = {} /\ io[h].pc = "ready"
  BY DEF Remap, Ready, FInv, FileOK
<1>2. /\ IsHandle(v) /\ WellTyped(v) /\ v.mode = io[h].mode
      /\ v.size = n /\ v.append = io[h].append
  <2> HIDE DEF n
  <2> QED BY <1>0 DEF IsHandle, Fields, WellTyped
<1>3. ASSUME NEW failed \in BOOLEAN
      PROVE  LET w == Remapped(io[h], n, failed)
             IN /\ IsHandle(w) /\ WellTyped(w) /\ w.mode = io[h].mode /\ w.size = n
                /\ w.map = w.size \/ w.unmapped
  <2> HIDE DEF n
  <2> QED BY <1>0 DEF IsHandle, Fields, WellTyped, Remapped
<1>4. \/ UNCHANGED <<io, excused>>
      \/ io[h].mode = "ReadWrite" /\ Becomes(h, v) /\ UNCHANGED excused
      \/ /\ io[h].mode = "ReadOnly" /\ excused' = excused \ {h}
         /\ \E failed \in BOOLEAN : Becomes(h, Remapped(io[h], n, failed))
  BY RemapCases DEF excused
<1> HIDE DEF v
<1>5. CASE UNCHANGED <<io, excused>>
  <2>1. HandleOK(h)'
    BY <1>0, <1>1, <1>5 DEF HandleOK, Undisturbed, excused, Show
  <2> QED BY <1>0, <1>1, <1>5, <2>1, QuietSound
<1>6. CASE io[h].mode = "ReadWrite" /\ Becomes(h, v) /\ UNCHANGED excused
  <2>1. io'[h] = v
    BY <1>2, <1>6, OneHandle DEF FInv, IInv
  <2>2. \A l : Knows(file, io[h], l) => Knows(file, v, l)
    BY <1>0, <1>2, <1>6 DEF Knows
  <2>3. HandleOK(h)'
    BY <1>0, <1>1, <1>2, <1>6, <2>1, <2>2 DEF HandleOK, Undisturbed, excused, Show
  <2> QED BY <1>0, <1>1, <1>2, <1>6, <2>3, QuietSound
<1>7. CASE /\ io[h].mode = "ReadOnly" /\ excused' = excused \ {h}
           /\ \E failed \in BOOLEAN : Becomes(h, Remapped(io[h], n, failed))
  <2>1. PICK failed \in BOOLEAN : Becomes(h, Remapped(io[h], n, failed))
    BY <1>7
  <2> DEFINE w == Remapped(io[h], n, failed)
  <2>2. /\ IsHandle(w) /\ WellTyped(w) /\ w.mode = io[h].mode /\ w.size = n
        /\ w.map = w.size \/ w.unmapped
    BY <1>3
  <2>3. Becomes(h, w)
    BY <2>1
  <2> HIDE DEF w
  <2>4. io'[h] = w
    BY <2>2, <2>3, OneHandle DEF FInv, IInv
  <2>5. Knows(file', w, log'[h])
    BY <1>0, <1>1, <1>7, <2>2 DEF Knows, Writes
  <2>6. HandleOK(h)'
    BY <1>0, <1>1, <1>7, <2>2, <2>4, <2>5 DEF HandleOK, Show
  <2> QED BY <1>0, <1>1, <1>7, <2>2, <2>3, <2>6, QuietSound
<1> QED BY <1>4, <1>5, <1>6, <1>7

-----------------------------------------------------------------------------
(* Writing.                                                                 *)

\* The types of a writing handle and of what it writes.
LEMMA WriterTypes ==
    ASSUME FInv, NEW h \in Handles
    PROVE  /\ IsHandle(io[h]) /\ WellTyped(io[h])
           /\ file \in Seq(Nat) /\ Len(file) \in Nat /\ log[h] \in Seq(Nat)
           /\ \A data \in Datas : data \in Seq(Nat) /\ Len(data) \in Nat
           /\ \A n \in 0..MaxSize : n \in Nat
<1>1. IsHandle(io[h]) /\ WellTyped(io[h]) /\ file \in Seq(Nat) /\ log[h] \in Seq(Nat)
  BY DEF FInv, IInv, HandlesOK, HandleOK, FileOK
<1>2. \A data \in Datas : data \in Seq(Nat)
  BY DataAssumption DEF DataAssumption
<1> QED BY <1>1, <1>2, LenProperties, IOAssumption DEF IOAssumption

\* A writer that knows what it did knows the file: its spans show the buffer.
LEMMA WriteSound ==
    ASSUME FInv, IInv', NEW h \in Handles, Writer(h), file' \in Seq(Nat),
           \A g \in Handles : g # h => io'[g] = io[g],
           WellTyped(io'[h]), io'[h].pc = io[h].pc, io'[h].mode = io[h].mode,
           io'[h].buf = io[h].buf,
           NEW l \in Seq(Nat), log' = [log EXCEPT ![h] = l] \/ (UNCHANGED log /\ l = log[h]),
           UNCHANGED <<views, doubled>>,
           excused' = excused \union Unlocked(h) \/ UNCHANGED <<file, excused>>,
           Knows(file, io[h], log[h]) => Knows(file', io'[h], l)
    PROVE  FInv'
<1>0. HandleOK(h) /\ io[h].mode # "ReadOnly"
  BY DEF FInv, Writer, Writes
<1>2. /\ FileOK' /\ log'[h] = l
      /\ \A g \in Handles : g # h => log'[g] = log[g] /\ views'[g] = views[g]
  BY DEF FInv, FileOK
<1>3. ASSUME NEW g \in Handles, g # h, io[g].pc # "closed", Undisturbed(g)'
      PROVE  file' = file /\ Undisturbed(g)
  <2>1. CASE excused' = excused \union Unlocked(h)
    BY <2>1, <1>3, WriterStep
  <2>2. CASE UNCHANGED <<file, excused>>
    BY <2>2, <1>3 DEF Undisturbed, excused
  <2> QED BY <2>1, <2>2
<1>4. Undisturbed(h)' => Undisturbed(h)
  BY DEF Undisturbed, excused
<1>5. Show(file, io[h], views[h]) => Show(file', io'[h], views[h])
  BY <1>0 DEF Show
<1>6. HandleOK(h)'
  BY <1>0, <1>2, <1>4, <1>5 DEF HandleOK, Writer, Ready
<1> QED BY <1>2, <1>3, <1>6, OwnStep

\* A write at a place, as far as it got.
LEMMA WriteAtSound ==
    ASSUME FInv, NEW h \in Handles, NEW off \in 0..MaxSize, NEW data \in Datas,
           WriteAt(h, off, data)
    PROVE  FInv'
<1>0. /\ IInv' /\ IsHandle(io[h]) /\ WellTyped(io[h]) /\ Writer(h)
      /\ file \in Seq(Nat) /\ Len(file) \in Nat /\ log[h] \in Seq(Nat)
      /\ data \in Seq(Nat) /\ Len(data) \in Nat /\ off \in Nat
      /\ io[h].size \in Nat /\ io[h].append \in Nat
  <2>1. IInv' /\ Writer(h)
    BY WritingInv DEF FInv, WriteAt, MayWrite
  <2> QED BY <2>1, WriterTypes DEF WellTyped
<1> DEFINE v == [io[h] EXCEPT !.size = Larger(io[h].size, off + Len(data))]
<1>1. PICK n \in 0..Len(data) :
        LET done == SubSeq(data, 1, n) IN
        /\ file' = Written(file, off, done)
        /\ log' = [log EXCEPT ![h] = At(Written(log[h], off, done), 0, io[h].append)]
        /\ IF n = Len(data) THEN Becomes(h, v) ELSE UNCHANGED io
  BY DEF WriteAt, FInv, FileOK
<1>2. UNCHANGED <<views, doubled>> /\ excused' = excused \union Unlocked(h)
  BY DEF WriteAt, excused
<1> DEFINE done == SubSeq(data, 1, n)
           l == At(Written(log[h], off, done), 0, io[h].append)
<1>3. done \in Seq(Nat) /\ Len(done) = n /\ n \in Nat
  BY <1>0, PartWritten
<1>4. /\ IsHandle(v) /\ WellTyped(v) /\ v.pc = io[h].pc /\ v.mode = io[h].mode
      /\ v.buf = io[h].buf /\ v.append = io[h].append
      /\ v.size = Larger(io[h].size, off + Len(data))
  BY <1>0 DEF IsHandle, Fields, WellTyped, Larger
<1>5. /\ file' = Written(file, off, done) /\ log' = [log EXCEPT ![h] = l]
      /\ (n = Len(data) /\ Becomes(h, v)) \/ UNCHANGED io
  BY <1>1
<1> HIDE DEF done, v
<1>6. file' \in Seq(Nat) /\ Len(file') = Larger(Len(file), off + n)
  <2>1. file \in Seq(Nat) /\ off \in Nat /\ done \in Seq(Nat) /\ Len(done) = n
    BY <1>0, <1>3
  <2>2. /\ Written(file, off, done) \in Seq(Nat)
        /\ Len(Written(file, off, done)) = Larger(Len(file), off + n)
    BY <2>1, BytesWritten
  <2> QED BY <1>5, <2>2
<1>7. l \in Seq(Nat) /\ (Begins(log[h], file, io[h].append) => Begins(l, file', io[h].append))
  <2>1. Written(log[h], off, done) \in Seq(Nat)
    BY <1>0, <1>3, BytesWritten
  <2>2. l \in Seq(Nat)
    BY <1>0, <2>1, BytesOfAt
  <2> QED BY <1>0, <1>3, <1>5, <2>2, BeginsWritten
<1>8. \/ n = Len(data) /\ io'[h] = v /\ \A g \in Handles : g # h => io'[g] = io[g]
      \/ UNCHANGED io
  BY <1>4, <1>5, OneHandle DEF FInv, IInv
<1>9. /\ \A g \in Handles : g # h => io'[g] = io[g]
      /\ WellTyped(io'[h]) /\ io'[h].pc = io[h].pc /\ io'[h].mode = io[h].mode
      /\ io'[h].buf = io[h].buf /\ io'[h].append = io[h].append
      /\ io'[h].size = io[h].size
           \/ (n = Len(data) /\ io'[h].size = Larger(io[h].size, off + Len(data)))
  <2>1. CASE UNCHANGED io
    BY <2>1, <1>0
  <2>2. CASE n = Len(data) /\ io'[h] = v /\ \A g \in Handles : g # h => io'[g] = io[g]
    BY <2>2, <1>4
  <2> QED BY <2>1, <2>2, <1>8
<1> HIDE DEF l
<1>10. Knows(file, io[h], log[h]) => Knows(file', io'[h], l)
  <2>1. io[h].mode # "ReadOnly"
    BY <1>0 DEF Writer, Writes
  <2>2. io[h].size <= Len(file) => io'[h].size <= Len(file')
    BY <1>0, <1>3, <1>6, <1>9 DEF Larger
  <2> QED BY <2>1, <2>2, <1>7, <1>9 DEF Knows
<1>11. log' = [log EXCEPT ![h] = l] \/ (UNCHANGED log /\ l = log[h])
  BY <1>5
<1> QED BY <1>0, <1>2, <1>6, <1>7, <1>9, <1>10, <1>11, WriteSound

\* An append that stays half done is behind the cursor.
LEMMA AppendSound ==
    ASSUME FInv, NEW h \in Handles, NEW data \in Datas, Append_(h, data)
    PROVE  FInv'
<1> DEFINE off == io[h].append
<1>0. /\ IInv' /\ IsHandle(io[h]) /\ WellTyped(io[h]) /\ Writer(h)
      /\ file \in Seq(Nat) /\ Len(file) \in Nat /\ log[h] \in Seq(Nat)
      /\ data \in Seq(Nat) /\ Len(data) \in Nat
      /\ io[h].size \in Nat /\ off \in Nat
  <2>1. IInv' /\ Writer(h)
    BY WritingInv DEF FInv, Append_, MayWrite
  <2> QED BY <2>1, WriterTypes DEF WellTyped
<1> DEFINE v == [io[h] EXCEPT !.size = Larger(io[h].size, off + Len(data)),
                              !.append = off + Len(data)]
<1>1. PICK n \in 0..Len(data) :
        /\ file' = Written(file, off, SubSeq(data, 1, n))
        /\ IF n = Len(data)
           THEN Becomes(h, v) /\ log' = [log EXCEPT ![h] = log[h] \o data]
           ELSE UNCHANGED <<io, log>>
  <2> HIDE DEF v
  <2>1. PICK n \in 0..Len(data) :
          /\ file' = Written(file, off, SubSeq(data, 1, n))
          /\ IF n = Len(data)
             THEN /\ Becomes(h, [io[h] EXCEPT !.size = Larger(@, off + n), !.append = off + n])
                  /\ log' = [log EXCEPT ![h] = @ \o data]
             ELSE UNCHANGED <<io, log>>
    BY DEF Append_
  <2>2. CASE n = Len(data)
    BY <2>1, <2>2 DEF v
  <2>3. CASE n # Len(data)
    BY <2>1, <2>3
  <2> QED BY <2>2, <2>3
<1>2. UNCHANGED <<views, doubled>> /\ excused' = excused \union Unlocked(h)
  BY DEF Append_, excused
<1> DEFINE done == SubSeq(data, 1, n)
           l == IF n = Len(data) THEN log[h] \o data ELSE log[h]
<1>3. /\ done \in Seq(Nat) /\ Len(done) = n /\ n \in Nat
      /\ \A i \in 1..n : done[i] = data[i]
  BY <1>0, PartWritten
<1>4. n = Len(data) => done = data
  BY <1>0, <1>3, SeqEqual
<1>5. /\ IsHandle(v) /\ WellTyped(v) /\ v.pc = io[h].pc /\ v.mode = io[h].mode
      /\ v.buf = io[h].buf /\ v.append = off + Len(data)
      /\ v.size = Larger(io[h].size, off + Len(data))
  BY <1>0 DEF IsHandle, Fields, WellTyped, Larger
<1> HIDE DEF v, done
<1>6. /\ file' = Written(file, off, done)
      /\ log' = [log EXCEPT ![h] = l] \/ (UNCHANGED log /\ l = log[h])
      /\ (n = Len(data) /\ Becomes(h, v)) \/ (n # Len(data) /\ UNCHANGED io)
  <2>1. CASE n = Len(data)
    BY <2>1, <1>1 DEF done
  <2>2. CASE n # Len(data)
    BY <2>2, <1>1 DEF done
  <2> QED BY <2>1, <2>2
<1>7. file' \in Seq(Nat) /\ Len(file') = Larger(Len(file), off + n)
  <2>1. file \in Seq(Nat) /\ off \in Nat /\ done \in Seq(Nat) /\ Len(done) = n
    BY <1>0, <1>3
  <2>2. /\ Written(file, off, done) \in Seq(Nat)
        /\ Len(Written(file, off, done)) = Larger(Len(file), off + n)
    BY <2>1, BytesWritten
  <2> QED BY <1>6, <2>2
<1>8. \/ n = Len(data) /\ io'[h] = v /\ \A g \in Handles : g # h => io'[g] = io[g]
      \/ n # Len(data) /\ UNCHANGED io
  BY <1>5, <1>6, OneHandle DEF FInv, IInv
<1>9. /\ \A g \in Handles : g # h => io'[g] = io[g]
      /\ WellTyped(io'[h]) /\ io'[h].pc = io[h].pc /\ io'[h].mode = io[h].mode
      /\ io'[h].buf = io[h].buf
      /\ \/ /\ n = Len(data) /\ io'[h].append = off + n
            /\ io'[h].size = Larger(io[h].size, off + n)
         \/ n # Len(data) /\ io'[h].append = off /\ io'[h].size = io[h].size
  BY <1>0, <1>5, <1>8
<1>10. l \in Seq(Nat)
  BY <1>0, ConcatProperties
<1>11. Begins(log[h], file, off) => Begins(l, file', io'[h].append)
  <2> SUFFICES ASSUME Begins(log[h], file, off) PROVE Begins(l, file', io'[h].append)
    OBVIOUS
  <2>1. /\ Begins(log[h] \o done, file', off + n)
        /\ Begins(log[h], file', off)
    <3> HIDE DEF off
    <3> QED BY <1>0, <1>3, <1>6, BeginsAppended
  <2>2. CASE n = Len(data)
    BY <2>1, <2>2, <1>4, <1>9
  <2>3. CASE n # Len(data)
    BY <2>1, <2>3, <1>9
  <2> QED BY <2>2, <2>3
<1> HIDE DEF l
<1>12. Knows(file, io[h], log[h]) => Knows(file', io'[h], l)
  <2>1. io[h].mode # "ReadOnly"
    BY <1>0 DEF Writer, Writes
  <2>2. io[h].size <= Len(file) => io'[h].size <= Len(file')
    <3> HIDE DEF off
    <3> QED BY <1>0, <1>3, <1>7, <1>9 DEF Larger
  <2> QED BY <2>1, <2>2, <1>11, <1>9 DEF Knows
<1> QED BY <1>0, <1>2, <1>6, <1>7, <1>9, <1>10, <1>12, WriteSound

\* Back to an earlier position, which must be one.
LEMMA SetAppendPositionSound ==
    ASSUME FInv, NEW h \in Handles, NEW pos \in 0..MaxSize, SetAppendPosition(h, pos)
    PROVE  FInv'
<1>0. /\ IInv' /\ IsHandle(io[h]) /\ WellTyped(io[h]) /\ Writer(h)
      /\ file \in Seq(Nat) /\ Len(file) \in Nat /\ log[h] \in Seq(Nat)
      /\ io[h].append \in Nat /\ pos \in Nat /\ pos <= io[h].append
  <2>1. IInv' /\ Writer(h) /\ pos <= io[h].append
    BY WritingInv DEF FInv, SetAppendPosition, MayWrite
  <2> QED BY <2>1, WriterTypes DEF WellTyped
<1> DEFINE v == [io[h] EXCEPT !.append = pos]
           l == At(log[h], 0, pos)
<1>1. /\ UNCHANGED <<file, views, doubled, excused>>
      /\ Becomes(h, v) /\ log' = [log EXCEPT ![h] = l]
  BY DEF SetAppendPosition, FInv, FileOK, disturbed, excused
<1>2. /\ IsHandle(v) /\ WellTyped(v) /\ v.pc = io[h].pc /\ v.mode = io[h].mode
      /\ v.buf = io[h].buf /\ v.append = pos /\ v.size = io[h].size
  BY <1>0 DEF IsHandle, Fields, WellTyped
<1> HIDE DEF v
<1>3. io'[h] = v /\ \A g \in Handles : g # h => io'[g] = io[g]
  BY <1>1, <1>2, OneHandle DEF FInv, IInv
<1>4. l \in Seq(Nat)
  BY <1>0, BytesOfAt
<1>5. Begins(log[h], file, io[h].append) => Begins(l, file, pos)
  <2> SUFFICES ASSUME Begins(log[h], file, io[h].append) PROVE Begins(l, file, pos)
    OBVIOUS
  <2>1. pos <= Len(file)
    BY <1>0 DEF Begins
  <2> QED BY <1>0, <2>1, BeginsCut
<1> HIDE DEF l
<1>6. Knows(file, io[h], log[h]) => Knows(file', io'[h], l)
  <2>1. io[h].mode # "ReadOnly"
    BY <1>0 DEF Writer, Writes
  <2> QED BY <2>1, <1>1, <1>2, <1>3, <1>5 DEF Knows
<1>7. log' = [log EXCEPT ![h] = l] \/ (UNCHANGED log /\ l = log[h])
  BY <1>1
<1>8. excused' = excused \union Unlocked(h) \/ UNCHANGED <<file, excused>>
  BY <1>1
<1>9. /\ file' \in Seq(Nat) /\ UNCHANGED <<views, doubled>>
      /\ WellTyped(io'[h]) /\ io'[h].pc = io[h].pc /\ io'[h].mode = io[h].mode
      /\ io'[h].buf = io[h].buf
  BY <1>0, <1>1, <1>2, <1>3
<1> QED BY <1>0, <1>3, <1>4, <1>6, <1>7, <1>8, <1>9, WriteSound

\* The size is the one that was asked for, and the cursor is within it.
LEMMA TruncateSound ==
    ASSUME FInv, NEW h \in Handles, NEW size \in 0..MaxSize, Truncate(h, size)
    PROVE  FInv'
<1> DEFINE append == IF io[h].append > size THEN size ELSE io[h].append
           v == [io[h] EXCEPT !.size = size, !.append = append]
           l == At(log[h], 0, append)
<1>0. /\ IInv' /\ IsHandle(io[h]) /\ WellTyped(io[h]) /\ Writer(h)
      /\ file \in Seq(Nat) /\ Len(file) \in Nat /\ log[h] \in Seq(Nat)
      /\ io[h].append \in Nat /\ size \in Nat
  <2>1. IInv' /\ Writer(h)
    BY WritingInv DEF FInv, Truncate, MayWrite
  <2> QED BY <2>1, WriterTypes DEF WellTyped
<1>1. /\ UNCHANGED <<views, doubled>> /\ excused' = excused \union Unlocked(h)
      /\ Becomes(h, v) /\ log' = [log EXCEPT ![h] = l]
      /\ file' = [i \in 1..size |-> IF i <= Len(file) THEN file[i] ELSE 0]
  BY DEF Truncate, FInv, FileOK, excused
<1>2. append \in Nat /\ append <= size /\ append <= io[h].append
  BY <1>0
<1> HIDE DEF append
<1>3. /\ IsHandle(v) /\ WellTyped(v) /\ v.pc = io[h].pc /\ v.mode = io[h].mode
      /\ v.buf = io[h].buf /\ v.append = append /\ v.size = size
  BY <1>0, <1>2 DEF IsHandle, Fields, WellTyped
<1> HIDE DEF v
<1>4. io'[h] = v /\ \A g \in Handles : g # h => io'[g] = io[g]
  BY <1>1, <1>3, OneHandle DEF FInv, IInv
<1>5. /\ file' \in Seq(Nat) /\ Len(file') = size
      /\ \A i \in 1..size : i <= Len(file) => file'[i] = file[i]
  BY <1>0, <1>1, Lengthened
<1>6. l \in Seq(Nat)
  BY <1>0, <1>2, BytesOfAt
<1>7. Begins(log[h], file, io[h].append) => Begins(l, file', append)
  <2> SUFFICES ASSUME Begins(log[h], file, io[h].append) PROVE Begins(l, file', append)
    OBVIOUS
  <2>1. \A i \in 1..append : i \in 1..size /\ i <= Len(file)
    BY <1>0, <1>2 DEF Begins
  <2>2. append <= Len(file') /\ \A i \in 1..append : file'[i] = file[i]
    BY <2>1, <1>2, <1>5
  <2> QED BY <1>0, <1>2, <1>5, <2>2, BeginsCut
<1> HIDE DEF l
<1>8. Knows(file, io[h], log[h]) => Knows(file', io'[h], l)
  <2>1. io[h].mode # "ReadOnly"
    BY <1>0 DEF Writer, Writes
  <2> QED BY <2>1, <1>0, <1>3, <1>4, <1>5, <1>7 DEF Knows
<1>9. log' = [log EXCEPT ![h] = l] \/ (UNCHANGED log /\ l = log[h])
  BY <1>1
<1>10. /\ file' \in Seq(Nat) /\ UNCHANGED <<views, doubled>>
       /\ excused' = excused \union Unlocked(h)
       /\ WellTyped(io'[h]) /\ io'[h].pc = io[h].pc /\ io'[h].mode = io[h].mode
       /\ io'[h].buf = io[h].buf
  BY <1>1, <1>3, <1>4, <1>5
<1> QED BY <1>0, <1>4, <1>6, <1>8, <1>9, <1>10, WriteSound

-----------------------------------------------------------------------------
\* Before the first handle is opened there is nothing to know.
LEMMA InitSound == Init => FInv
<1> SUFFICES ASSUME Init PROVE FInv
  OBVIOUS
<1>1. IInv
  BY InitInv
<1>2. FileOK
  BY EmptySeq DEF Init, FileOK
<1>3. \A h \in Handles : HandleOK(h)
  BY EmptySeq DEF Init, HandleOK, WellTyped, Closed, Pcs, Show
<1> QED BY <1>1, <1>2, <1>3 DEF FInv

\* Every step of every process keeps the invariant.
LEMMA NextSound == FInv /\ [Next]_vars => FInv'
<1> SUFFICES ASSUME FInv, [Next]_vars PROVE FInv'
  OBVIOUS
<1>1. CASE \E h \in Handles, mode \in Modes : OpenFile(h, mode)
  BY <1>1, OpenFileSound
<1>2. CASE \E h \in Handles : LockFile(h)
  BY <1>2, LockFileSound
<1>3. CASE \E h \in Handles : MapFile(h)
  BY <1>3, MapFileSound
<1>4. CASE \E h \in Handles : Destroy(h)
  BY <1>4, DestroySound
<1>5. CASE \E h, g \in Handles : Move(h, g)
  BY <1>5, MoveSound
<1>6. CASE \E h \in Handles, off \in 0..MaxSize, len \in 0..MaxSize : ReadAt(h, off, len)
  BY <1>6, ReadAtSound
<1>8. CASE \E h \in Handles : Remap(h)
  BY <1>8, RemapSound
<1>9. CASE \E h \in Handles, off \in 0..MaxSize, data \in Datas : WriteAt(h, off, data)
  BY <1>9, WriteAtSound
<1>10. CASE \E h \in Handles, data \in Datas : Append_(h, data)
  BY <1>10, AppendSound
<1>11. CASE \E h \in Handles, pos \in 0..MaxSize : SetAppendPosition(h, pos)
  BY <1>11, SetAppendPositionSound
<1>12. CASE \E h \in Handles, size \in 0..MaxSize : Truncate(h, size)
  BY <1>12, TruncateSound
<1>13. CASE UNCHANGED vars
  <2>1. FileOK' /\ \A h \in Handles : HandleOK(h)'
    BY <1>13 DEF FInv, FileOK, HandleOK, Undisturbed, excused, vars
  <2>2. IInv'
    BY <1>13, UnchangedInv DEF FInv, vars
  <2> QED BY <2>1, <2>2 DEF FInv
<1> QED BY <1>1, <1>2, <1>3, <1>4, <1>5, <1>6, <1>8, <1>9, <1>10, <1>11, <1>12, <1>13
        DEF Next

\* The invariant says what the three properties say.
LEMMA InvImpliesSound == FInv => RangeCheckHolds /\ AppendedIntact /\ ViewsStable
<1> SUFFICES ASSUME FInv PROVE RangeCheckHolds /\ AppendedIntact /\ ViewsStable
  OBVIOUS
<1>1. RangeCheckHolds
  BY DEF FInv, HandleOK, Knows, Ready, RangeCheckHolds
<1>2. AppendedIntact
  <2> SUFFICES ASSUME NEW h \in Handles, Writer(h), Undisturbed(h)
               PROVE  io[h].append <= Len(file) /\ At(file, 0, io[h].append) = log[h]
    BY DEF AppendedIntact
  <2>1. /\ Begins(log[h], file, io[h].append)
        /\ log[h] \in Seq(Nat) /\ file \in Seq(Nat) /\ io[h].append \in Nat
    BY DEF FInv, FileOK, HandleOK, Knows, WellTyped, Writer, Ready
  <2> QED BY <2>1, BeginsIsAt
<1>3. ViewsStable
  BY DEF FInv, HandleOK, Show, Shown, ViewsStable
<1> QED BY <1>1, <1>2, <1>3

\* ReadAt's range check, which compares with the size the handle remembers,
\* lets nothing through that is not in the file, however the constructors,
\* locks and writes of the processes are interleaved (iohandler.cc, ReadAt).
THEOREM RangeChecksHold == Spec => []RangeCheckHolds
<1>1. Init => FInv
  BY InitSound
<1>2. FInv /\ [Next]_vars => FInv'
  BY NextSound
<1>3. FInv => RangeCheckHolds
  BY InvImpliesSound
<1> QED BY <1>1, <1>2, <1>3, PTL DEF Spec

\* What a writer appended is in the file, in order, over what it found there,
\* whatever failed half way and wherever the cursor was set back to (Append,
\* WriteAt, SetAppendPosition, Truncate).
THEOREM AppendsStayIntact == Spec => []AppendedIntact
<1>1. Init => FInv
  BY InitSound
<1>2. FInv /\ [Next]_vars => FInv'
  BY NextSound
<1>3. FInv => AppendedIntact
  BY InvImpliesSound
<1> QED BY <1>1, <1>2, <1>3, PTL DEF Spec

\* A span of the map shows what was read until the next Remap or the end of
\* the handle, although the map is the file itself (iohandler.h:98).
THEOREM SpansStayStable == Spec => []ViewsStable
<1>1. Init => FInv
  BY InitSound
<1>2. FInv /\ [Next]_vars => FInv'
  BY NextSound
<1>3. FInv => ViewsStable
  BY InvImpliesSound
<1> QED BY <1>1, <1>2, <1>3, PTL DEF Spec
=============================================================================
