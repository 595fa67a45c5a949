------------------------------ MODULE CliProofs ------------------------------
(***************************************************************************)
(* Proofs about Cli, for any sources, keys, argument lists and commands,   *)
(* and for any number of edits, failing calls and kills: what a create     *)
(* leaves behind, what can be recovered, what extract and compress have    *)
(* written.                                                                *)
(***************************************************************************)
EXTENDS Cli, FiniteSetTheorems, SequenceTheorems, WellFoundedInduction, TLAPS

-----------------------------------------------------------------------------
(* Shapes: what a command, a result and an archive consist of.              *)

CommandFields == {"name", "pc", "list", "at", "as", "soft", "cipher", "codec", "given", "key",
                  "flags", "prefix", "path", "isdir", "buf", "edits"}
ResultFields == {"name", "code", "list", "names", "active", "path", "flags", "pc", "at",
                 "fault", "quiet"}
ArchiveFields == {"state", "cipher", "key", "files"}

\* How far each command can be.
Stages == [none     |-> {"idle"},
           create   |-> {"options", "init", "files"},
           add      |-> {"options", "open", "add"},
           delete   |-> {"options", "open", "delete"},
           extract  |-> {"options", "open", "extract"},
           recover  |-> {"options", "open", "recover", "write"},
           list     |-> {"options", "open", "list"},
           info     |-> {"options", "open", "info"},
           compress |-> {"options", "pack", "load", "code", "write"}]
CommandNames == DOMAIN Stages \ {"none"}

IsSequence(s) == \E S : s \in Seq(S)

\* A path is a source with the endings that compress has given it.
Paths == Seq(Sources \cup {".zst", "_extracted", ".out"})

\* A file of an archive.
IsEntry(e) == DOMAIN e = {"data", "deleted"} /\ e.deleted \in BOOLEAN

Shapes ==
    /\ DOMAIN cmd = CommandFields /\ DOMAIN result = ResultFields
    /\ cmd.name \in DOMAIN Stages /\ cmd.pc \in Stages[cmd.name]
    /\ cmd.pc = "idle" => cmd = NoCommand
    /\ IsSequence(cmd.list) /\ cmd.at \in Nat \ {0}
    /\ DOMAIN archive = ArchiveFields
    /\ IsFiniteSet(DOMAIN archive.files)
    /\ \A n \in DOMAIN archive.files : IsEntry(archive.files[n])
    /\ DOMAIN made \subseteq Paths
    /\ edits \in Nat /\ cmd.edits \in Nat /\ cmd.edits <= edits

-----------------------------------------------------------------------------
(* The invariant.                                                           *)

\* undo has the one file that is soft deleted; a create starts with none.
Undone ==
    /\ \E n : DOMAIN undo \subseteq {n}
    /\ SoftDeleted(archive) = DOMAIN undo
    /\ \A n \in DOMAIN undo : archive.files[n].data = undo[n]
    /\ cmd.pc = "files" => DOMAIN undo = {}

\* A create that runs has stored the sources before the next one.
Creating ==
    cmd.name = "create" =>
      /\ cmd.pc \in {"options", "init"} => archive = before /\ stored = <<>> /\ cmd.at = 1
      /\ cmd.pc = "files" =>
           /\ archive.state = "unfinished" /\ archive.files = FilesOf(stored)
           /\ IsSequence(stored) /\ Len(stored) = cmd.at - 1
           /\ cmd.at <= Len(cmd.list) + 1

\* An extract that runs has written the files before the next one.
Extracting ==
    /\ cmd.pc \in {"options", "open"} => cmd.at = 1
    /\ cmd.pc = "extract" =>
         /\ cmd.at <= Len(cmd.list) + 1
         /\ \A i \in 1..cmd.at - 1 :
              LET n == cmd.list[i]
              IN /\ n \in Live(archive) /\ n \in DOMAIN extracted
                 /\ <<"name", n>> \in cut \/ extracted[n] = archive.files[n].data

\* Entries of a directory: each of its files at most once.
EntriesOf(es, f) ==
    /\ IsSequence(es)
    /\ \A i \in DOMAIN es : es[i].name \in DOMAIN f /\ es[i].data = f[es[i].name]
    /\ \A i, j \in DOMAIN es : es[i].name = es[j].name => i = j

\* A compress that runs, while the user changes nothing, has what belongs to
\* its input.
Compressing ==
    cmd.name = "compress" =>
      /\ cmd.path \in Paths
      /\ cmd.edits = edits =>
           LET input == NodeAt(cmd.path) IN
           /\ cmd.pc \in {"pack", "load", "code", "write"} => cmd.isdir = IsDirectory(input)
           /\ cmd.pc = "pack" =>
                /\ IsDirectory(input)
                /\ \E es : cmd.buf = Packed(es) /\ EntriesOf(es, input[2])
           /\ cmd.pc = "code" =>
                /\ Holds(cmd.buf, input)
                /\ IsDirectory(input) => cmd.buf[1] = "packed"
           /\ cmd.pc = "write" =>
                IF "compress" \in cmd.flags
                THEN \E x : cmd.buf = Frame(x) /\ Holds(x, input)
                ELSE /\ "decompress" \in cmd.flags /\ ~IsDirectory(input)
                     /\ cmd.buf = Decompress(input)

CliInv ==
    /\ Shapes /\ Undone
    /\ Creating /\ CreateStoresPrefix
    /\ Extracting /\ ExtractWritesArchive
    /\ Compressing /\ CompressKeepsInput

-----------------------------------------------------------------------------
(* Helpers.                                                                 *)

LEMMA SequenceIs ==
    ASSUME NEW s, IsSequence(s)
    PROVE  Len(s) \in Nat /\ DOMAIN s = 1..Len(s)
<1>1. PICK S : s \in Seq(S)
  BY DEF IsSequence
<1> QED BY <1>1

LEMMA FunctionIsSequence ==
    ASSUME NEW n \in Nat, NEW f, f = [i \in 1..n |-> f[i]]
    PROVE  IsSequence(f) /\ Len(f) = n
<1> DEFINE S == {f[i] : i \in 1..n}
<1>1. \A i \in 1..n : f[i] \in S
  OBVIOUS
<1> HIDE DEF S
<1>2. f \in [1..n -> S]
  BY <1>1
<1>3. f \in Seq(S) /\ Len(f) = n
  BY <1>2
<1> QED BY <1>3 DEF IsSequence

\* One element more.
LEMMA AppendIs ==
    ASSUME NEW s, IsSequence(s), NEW e
    PROVE  /\ IsSequence(Append(s, e)) /\ Len(Append(s, e)) = Len(s) + 1 /\ Len(s) \in Nat
           /\ DOMAIN Append(s, e) = 1..Len(s) + 1 /\ DOMAIN s = 1..Len(s)
           /\ \A i \in 1..Len(s) : Append(s, e)[i] = s[i]
           /\ Append(s, e)[Len(s) + 1] = e
<1>1. PICK S : s \in Seq(S)
  BY DEF IsSequence
<1> DEFINE T == S \cup {e}
<1>2. S \subseteq T /\ e \in T
  OBVIOUS
<1> HIDE DEF T
<1>3. s \in Seq(T)
  BY <1>1, <1>2, SeqMonotonic
<1>4. /\ Append(s, e) \in Seq(T) /\ Len(Append(s, e)) = Len(s) + 1
      /\ \A i \in 1..Len(s) : Append(s, e)[i] = s[i]
      /\ Append(s, e)[Len(s) + 1] = e
  BY <1>2, <1>3, AppendProperties
<1>5. Len(s) \in Nat /\ DOMAIN s = 1..Len(s)
  BY <1>3, LenProperties
<1>6. DOMAIN Append(s, e) = 1..Len(s) + 1
  BY <1>4, LenProperties
<1> QED BY <1>4, <1>5, <1>6 DEF IsSequence

\* Some indexes of a sequence have a largest among them.
LEMMA LargestIndex ==
    ASSUME NEW l \in Nat, NEW T, T \subseteq 1..l, T # {}
    PROVE  \E i \in T : \A j \in T : j <= i
<1> DEFINE Behind == {m \in Nat : l - m \in T}
           Less   == OpToRel(<, Nat)
<1>1. \A i, j \in Nat : i < j => <<i, j>> \in Less
  BY DEF OpToRel
<1>2. Behind \subseteq Nat /\ Behind # {}
  <2>1. PICK i \in T : TRUE
    OBVIOUS
  <2>2. l - i \in Nat /\ l - (l - i) = i
    BY <2>1
  <2> QED BY <2>1, <2>2
<1>3. IsWellFoundedOn(Less, Nat)
  BY NatLessThanWellFounded
<1> HIDE DEF Less
<1>4. \E x \in Behind : \A y \in Behind : ~(<<y, x>> \in Less)
  <2> HIDE DEF Behind
  <2> QED BY <1>2, <1>3, WFMin
<1>5. PICK x \in Behind : \A y \in Behind : ~(<<y, x>> \in Less)
  BY <1>4
<1>6. \A j \in T : j <= l - x
  <2> SUFFICES ASSUME NEW j \in T, j > l - x PROVE FALSE
    OBVIOUS
  <2>1. j \in Nat /\ l - j \in Nat /\ l - (l - j) = j /\ l - j < x /\ x \in Nat
    OBVIOUS
  <2>2. l - j \in Behind
    BY <2>1
  <2> QED BY <1>1, <1>5, <2>1, <2>2
<1> QED BY <1>5, <1>6

LEMMA LatestIs ==
    ASSUME NEW s, IsSequence(s), NEW n \in {s[i].name : i \in DOMAIN s}
    PROVE  Latest(s, n) \in DOMAIN s
<1> DEFINE T == {i \in DOMAIN s : s[i].name = n}
           P(i) == s[i].name = n /\ \A j \in DOMAIN s : s[j].name = n => j <= i
<1>1. Len(s) \in Nat /\ DOMAIN s = 1..Len(s)
  BY SequenceIs
<1>2. T \subseteq 1..Len(s) /\ T # {}
  BY <1>1
<1>3. \E i \in T : \A j \in T : j <= i
  <2> HIDE DEF T
  <2> QED BY <1>1, <1>2, LargestIndex
<1>4. \E i \in DOMAIN s : P(i)
  BY <1>3
<1>5. Latest(s, n) = CHOOSE i \in DOMAIN s : P(i)
  BY DEF Latest
<1> HIDE DEF P
<1> QED BY <1>4, <1>5, Zenon

\* Storing one file more puts it into the archive.
LEMMA FilesOfAppend ==
    ASSUME NEW s, IsSequence(s), NEW e
    PROVE  FilesOf(Append(s, e)) = Put(FilesOf(s), e.name, File(e.data))
<1> DEFINE t == Append(s, e)  l == Len(s)
           P(q, n, i) == q[i].name = n /\ \A j \in DOMAIN q : q[j].name = n => j <= i
           D == {s[i].name : i \in DOMAIN s}
           E == {t[i].name : i \in DOMAIN t}
<1>1. /\ l \in Nat /\ DOMAIN s = 1..l /\ DOMAIN t = 1..l + 1
      /\ \A i \in 1..l : t[i] = s[i]
      /\ t[l + 1] = e
  BY AppendIs
<1> HIDE DEF t, l
<1>2. E = D \cup {e.name}
  BY <1>1
<1>3. Latest(t, e.name) = l + 1
  <2>1. Latest(t, e.name) = CHOOSE i \in DOMAIN t : P(t, e.name, i)
    BY DEF Latest
  <2>2. l + 1 \in DOMAIN t /\ P(t, e.name, l + 1)
    BY <1>1
  <2>3. \A i \in DOMAIN t : P(t, e.name, i) => i = l + 1
    BY <1>1, <2>2
  <2> HIDE DEF P
  <2> QED BY <2>1, <2>2, <2>3, Zenon
<1>4. \A n : n # e.name => Latest(t, n) = Latest(s, n)
  <2> SUFFICES ASSUME NEW n, n # e.name PROVE Latest(t, n) = Latest(s, n)
    OBVIOUS
  <2> DEFINE A == {i \in DOMAIN t : P(t, n, i)}  B == {i \in DOMAIN s : P(s, n, i)}
  <2>1. A = B
    BY <1>1
  <2>2. \A i : (i \in DOMAIN t /\ P(t, n, i)) <=> (i \in DOMAIN s /\ P(s, n, i))
    BY <2>1
  <2>3. (CHOOSE i : i \in DOMAIN t /\ P(t, n, i)) = (CHOOSE i : i \in DOMAIN s /\ P(s, n, i))
    <3> HIDE DEF P
    <3> QED BY <2>2
  <2>4. Latest(t, n) = CHOOSE i : i \in DOMAIN t /\ P(t, n, i)
    BY Zenon DEF Latest
  <2>5. Latest(s, n) = CHOOSE i : i \in DOMAIN s /\ P(s, n, i)
    BY Zenon DEF Latest
  <2> QED BY <2>3, <2>4, <2>5
<1>5. \A n \in D : n # e.name => t[Latest(t, n)].data = s[Latest(s, n)].data
  <2> SUFFICES ASSUME NEW n \in D, n # e.name
               PROVE  t[Latest(t, n)].data = s[Latest(s, n)].data
    OBVIOUS
  <2>1. Latest(s, n) \in DOMAIN s
    BY LatestIs
  <2> QED BY <1>1, <1>4, <2>1
<1>6. FilesOf(t) = [n \in E |-> File(t[Latest(t, n)].data)]
  BY DEF FilesOf
<1>7. FilesOf(s) = [n \in D |-> File(s[Latest(s, n)].data)]
  BY DEF FilesOf
<1> HIDE DEF D, E
<1>8. \A n \in E : File(t[Latest(t, n)].data)
                   = IF n = e.name THEN File(e.data) ELSE FilesOf(s)[n]
  BY <1>1, <1>2, <1>3, <1>5, <1>7
<1>9. FilesOf(t) = Put(FilesOf(s), e.name, File(e.data))
  BY <1>2, <1>6, <1>7, <1>8 DEF Put
<1> QED BY <1>9 DEF t

\* The fields that stay, and those that are set.
LEMMA Constants ==
    /\ DOMAIN NoCommand = CommandFields /\ DOMAIN NoResult = ResultFields
    /\ DOMAIN Done = ResultFields /\ Done.code = 0
    /\ DOMAIN Fail = ResultFields /\ Fail.code = 1
    /\ DOMAIN FaultFound = ResultFields /\ FaultFound.code = 1 /\ FaultFound.fault = TRUE
    /\ NoCommand.name = "none" /\ NoCommand.pc = "idle" /\ NoCommand.at = 1
    /\ NoCommand.list = <<>> /\ NoCommand.edits = 0
    /\ NoResult.name = "none"
BY DEF NoCommand, NoResult, Done, Fail, FaultFound, CommandFields, ResultFields

LEMMA StagesAre ==
    /\ DOMAIN Stages = {"none", "create", "add", "delete", "extract", "recover", "list", "info",
                        "compress"}
    /\ Stages["none"] = {"idle"}
    /\ Stages["create"] = {"options", "init", "files"}
    /\ Stages["add"] = {"options", "open", "add"}
    /\ Stages["delete"] = {"options", "open", "delete"}
    /\ Stages["extract"] = {"options", "open", "extract"}
    /\ Stages["recover"] = {"options", "open", "recover", "write"}
    /\ Stages["list"] = {"options", "open", "list"}
    /\ Stages["info"] = {"options", "open", "info"}
    /\ Stages["compress"] = {"options", "pack", "load", "code", "write"}
BY DEF Stages

\* Where a command is says which it is.
LEMMA StageOf ==
    ASSUME Shapes
    PROVE  /\ cmd.pc \in {"init", "files"} => cmd.name = "create"
           /\ cmd.pc = "add" => cmd.name = "add"
           /\ cmd.pc = "delete" => cmd.name = "delete"
           /\ cmd.pc = "extract" => cmd.name = "extract"
           /\ cmd.pc = "recover" => cmd.name = "recover"
           /\ cmd.pc = "list" => cmd.name = "list"
           /\ cmd.pc = "info" => cmd.name = "info"
           /\ cmd.pc \in {"pack", "load", "code"} => cmd.name = "compress"
           /\ cmd.pc = "open" => cmd.name \in {"add", "delete", "extract", "recover", "list", "info"}
           /\ cmd.pc \in {"options", "open"} => cmd.name # "none"
           /\ cmd.pc = "write" => cmd.name \in {"recover", "compress"}
BY StagesAre DEF Shapes

LEMMA EmptySequence == IsSequence(<<>>) /\ Len(<<>>) = 0
BY EmptySeq DEF IsSequence

\* A command that runs has not ended.
LEMMA NotEnded ==
    ASSUME cmd'.pc # "idle"
    PROVE  CreateStoresPrefix' /\ ExtractWritesArchive' /\ CompressKeepsInput'
<1>1. cmd' # NoCommand
  BY Constants
<1> QED BY <1>1 DEF CreateStoresPrefix, ExtractWritesArchive, CompressKeepsInput, Ended

\* What a command reports when it ends.
LEMMA Exited ==
    ASSUME Shapes, NEW r, DOMAIN r = ResultFields, Exit(r)
    PROVE  /\ cmd' = NoCommand /\ DOMAIN result' = ResultFields
           /\ result'.name = cmd.name /\ result'.code = r.code /\ result'.list = cmd.list
           /\ result'.path = cmd.path /\ result'.flags = cmd.flags /\ result'.pc = cmd.pc
           /\ result'.at = cmd.at /\ result'.fault = r.fault
           /\ result'.quiet = (cmd.edits = edits)
           /\ Creating' /\ Extracting' /\ Compressing'
<1>1. cmd' = NoCommand
  BY DEF Exit
<1>2. result' = [r EXCEPT !.name = cmd.name, !.list = cmd.list, !.path = cmd.path,
                          !.flags = cmd.flags, !.pc = cmd.pc, !.at = cmd.at,
                          !.quiet = (cmd.edits = edits)]
  BY DEF Exit
<1>3. {"name", "code", "list", "path", "flags", "pc", "at", "fault", "quiet"} \subseteq DOMAIN r
  BY DEF ResultFields
<1>4. cmd'.name = "none" /\ cmd'.pc = "idle"
  BY <1>1, Constants
<1>5. Creating' /\ Extracting' /\ Compressing'
  BY <1>4 DEF Creating, Extracting, Compressing
<1>6. DOMAIN result' = ResultFields
  BY <1>2
<1>7. /\ result'.name = cmd.name /\ result'.code = r.code /\ result'.list = cmd.list
      /\ result'.path = cmd.path /\ result'.flags = cmd.flags /\ result'.pc = cmd.pc
      /\ result'.at = cmd.at /\ result'.fault = r.fault
      /\ result'.quiet = (cmd.edits = edits)
  BY <1>2, <1>3
<1> QED BY <1>1, <1>5, <1>6, <1>7

LEMMA IdleShapes ==
    ASSUME Shapes, cmd' = NoCommand, DOMAIN result' = ResultFields,
           DOMAIN archive' = ArchiveFields, IsFiniteSet(DOMAIN archive'.files),
           \A n \in DOMAIN archive'.files : IsEntry(archive'.files[n]),
           DOMAIN made' \subseteq Paths, edits' = edits
    PROVE  Shapes'
<1>1. /\ DOMAIN cmd' = CommandFields /\ cmd'.name = "none" /\ cmd'.pc = "idle"
      /\ cmd'.at = 1 /\ cmd'.list = <<>> /\ cmd'.edits = 0
  BY Constants
<1>2. cmd'.name \in DOMAIN Stages /\ cmd'.pc \in Stages[cmd'.name]
  BY <1>1, StagesAre
<1>3. edits \in Nat
  BY DEF Shapes
<1> QED BY <1>1, <1>2, <1>3, EmptySequence DEF Shapes

\* A command that ends without a change of the archive or of what compress made.
LEMMA QuietExit ==
    ASSUME CliInv, NEW r, DOMAIN r = ResultFields, Exit(r),
           UNCHANGED <<archive, undo, edits>>, DOMAIN made' \subseteq Paths,
           cmd.name = "create" => CreateStoresPrefix',
           cmd.name = "extract" => ExtractWritesArchive',
           cmd.name = "compress" => CompressKeepsInput'
    PROVE  CliInv'
<1>0. Shapes /\ Undone
  BY DEF CliInv
<1>1. /\ cmd' = NoCommand /\ DOMAIN result' = ResultFields /\ result'.name = cmd.name
      /\ Creating' /\ Extracting' /\ Compressing'
  BY <1>0, Exited
<1>2. Shapes'
  <2>1. /\ DOMAIN archive' = ArchiveFields /\ IsFiniteSet(DOMAIN archive'.files)
        /\ \A n \in DOMAIN archive'.files : IsEntry(archive'.files[n])
    BY <1>0 DEF Shapes
  <2> QED BY <1>0, <1>1, <2>1, IdleShapes
<1>3. Undone'
  <2>1. cmd'.pc = "idle"
    BY <1>1, Constants
  <2>2. SoftDeleted(archive)' = SoftDeleted(archive)
    BY DEF SoftDeleted
  <2> QED BY <1>0, <2>1, <2>2 DEF Undone
<1>4. CreateStoresPrefix' /\ ExtractWritesArchive' /\ CompressKeepsInput'
  BY <1>1 DEF CreateStoresPrefix, ExtractWritesArchive, CompressKeepsInput, Ended
<1> QED BY <1>1, <1>2, <1>3, <1>4 DEF CliInv

\* A command that goes on, with nothing changed but what it knows.
LEMMA QuietMove ==
    ASSUME CliInv, DOMAIN cmd' = CommandFields, cmd'.name = cmd.name,
           cmd'.pc \in Stages[cmd.name] \ {"idle", "files"},
           IsSequence(cmd'.list), cmd'.at \in Nat \ {0}, cmd'.edits = cmd.edits,
           UNCHANGED <<result, archive, undo, made, edits>>,
           Creating', Extracting', Compressing'
    PROVE  CliInv'
<1>1. Shapes'
  BY DEF CliInv, Shapes
<1>2. Undone'
  <2>1. SoftDeleted(archive)' = SoftDeleted(archive)
    BY DEF SoftDeleted
  <2> QED BY <2>1 DEF CliInv, Undone
<1>3. CreateStoresPrefix' /\ ExtractWritesArchive' /\ CompressKeepsInput'
  BY NotEnded
<1> QED BY <1>1, <1>2, <1>3 DEF CliInv

-----------------------------------------------------------------------------
(* The steps.                                                               *)

LEMMA InitHolds == Init => CliInv
<1> SUFFICES ASSUME Init PROVE CliInv
  OBVIOUS
<1>1. /\ cmd = NoCommand /\ result = NoResult /\ archive = NoArchive /\ undo = Empty
      /\ made = Empty /\ edits = 0
  BY DEF Init
<1>2. DOMAIN Empty = {}
  BY DEF Empty
<1>3. DOMAIN archive = ArchiveFields /\ archive.files = Empty
  BY <1>1 DEF NoArchive, ArchiveFields
<1>4. "none" \in DOMAIN Stages /\ "idle" \in Stages["none"] /\ 1 \in Nat \ {0} /\ 0 \in Nat
  BY StagesAre
<1>5. Shapes
  BY <1>1, <1>2, <1>3, <1>4, Constants, EmptySequence, FS_EmptySet DEF Shapes
<1>6. Undone
  BY <1>1, <1>2, <1>3, Constants DEF Undone, SoftDeleted
<1>7. Creating /\ Extracting /\ Compressing
  BY <1>1, Constants DEF Creating, Extracting, Compressing
<1>8. CreateStoresPrefix /\ ExtractWritesArchive /\ CompressKeepsInput
  BY <1>1, Constants DEF CreateStoresPrefix, ExtractWritesArchive, CompressKeepsInput, Ended
<1> QED BY <1>5, <1>6, <1>7, <1>8 DEF CliInv

LEMMA NameListsAre == NameLists \subseteq Seq(Names)
<1> DEFINE Pairs == {<<n, m>> : n, m \in Names}
<1>1. \A l \in Pairs : \E n, m \in Names : l = <<n, m>>
  OBVIOUS
<1>2. \A n, m \in Names : <<n, m>> \in Seq(Names)
  OBVIOUS
<1>3. NameLists = {<<>>} \union Pairs
  BY DEF NameLists
<1> HIDE DEF Pairs
<1>4. Pairs \subseteq Seq(Names)
  BY <1>1, <1>2
<1>5. <<>> \in Seq(Names)
  BY EmptySeq
<1> QED BY <1>3, <1>4, <1>5

\* Every command starts from the same fields.
LEMMA Begun ==
    ASSUME Shapes, Begin
    PROVE  \E c : /\ Start(c) /\ DOMAIN c = CommandFields /\ c.name \in CommandNames
                  /\ c.at = 1 /\ IsSequence(c.list)
                  /\ c.name = "compress" => c.path \in Paths
<1> DEFINE Fits(c) == /\ DOMAIN c = CommandFields /\ c.name \in CommandNames
                      /\ c.at = 1 /\ IsSequence(c.list)
                      /\ c.name = "compress" => c.path \in Paths
<1>0. CommandNames = {"create", "add", "delete", "extract", "recover", "list", "info", "compress"}
  BY StagesAre DEF CommandNames
<1>00. ASSUME NEW c, DOMAIN c = CommandFields, c.name \in CommandNames, c.at = 1,
              IsSequence(c.list), c.name = "compress" => c.path \in Paths
       PROVE Fits(c)
  BY <1>00
<1> HIDE DEF Fits
<1> USE <1>0 DEF NoCommand, CommandFields
<1>1. ASSUME NEW l \in Lists, NEW n, NEW e, NEW z, NEW k
      PROVE  Fits([NoCommand EXCEPT !.name = "create", !.list = l, !.as = n,
                                    !.cipher = e, !.codec = z, !.given = k])
  <2>1. IsSequence(l)
    BY <1>1, CliAssumption DEF IsSequence
  <2> QED BY <2>1, <1>00
<1>2. ASSUME NEW s \in Sources, NEW n, NEW z, NEW k
      PROVE  Fits([NoCommand EXCEPT !.name = "add", !.list = <<s>>, !.as = n,
                                    !.codec = z, !.given = k])
  <2>1. <<s>> \in Seq({s})
    OBVIOUS
  <2>2. IsSequence(<<s>>)
    BY <2>1 DEF IsSequence
  <2> QED BY <2>2, <1>00
<1>3. ASSUME NEW n, NEW soft, NEW k
      PROVE  Fits([NoCommand EXCEPT !.name = "delete", !.as = n, !.soft = soft, !.given = k])
  BY EmptySequence, <1>00
<1>4. ASSUME NEW l \in NameLists, NEW k
      PROVE  Fits([NoCommand EXCEPT !.name = "extract", !.list = l, !.given = k])
  <2>1. l \in Seq(Names)
    BY NameListsAre
  <2>2. IsSequence(l)
    BY <2>1 DEF IsSequence
  <2> QED BY <2>2, <1>00
<1>5. ASSUME NEW n, NEW k
      PROVE  Fits([NoCommand EXCEPT !.name = "recover", !.as = n, !.given = k])
  BY EmptySequence, <1>00
<1>6. ASSUME NEW soft, NEW names, NEW k
      PROVE  Fits([NoCommand EXCEPT !.name = "list", !.soft = soft, !.prefix = names, !.given = k])
  BY EmptySequence, <1>00
<1>7. ASSUME NEW k PROVE Fits([NoCommand EXCEPT !.name = "info", !.given = k])
  BY EmptySequence, <1>00
<1>8. ASSUME NEW p \in InputPaths, NEW fl
      PROVE  Fits([NoCommand EXCEPT !.name = "compress", !.path = p, !.flags = fl])
  <2>1. p \in Paths
    <3>1. ASSUME NEW s \in Sources PROVE <<s>> \in Paths
      BY DEF Paths
    <3> QED BY <3>1 DEF InputPaths, Shapes
  <2> QED BY <2>1, EmptySequence, <1>00
<1> HIDE DEF NoCommand, CommandFields
<1>9. \E c : Start(c) /\ Fits(c)
  <2>1. CASE \E l \in Lists, n \in Overrides, c \in Ciphers, z \in Codecs, k \in KeyArgs :
         Start([NoCommand EXCEPT !.name = "create", !.list = l, !.as = n,
                                 !.cipher = c, !.codec = z, !.given = k])
    <3>1. PICK l \in Lists, n \in Overrides, c \in Ciphers, z \in Codecs, k \in KeyArgs :
            Start([NoCommand EXCEPT !.name = "create", !.list = l, !.as = n,
                                    !.cipher = c, !.codec = z, !.given = k])
      BY <2>1, Zenon
    <3> DEFINE d == [NoCommand EXCEPT !.name = "create", !.list = l, !.as = n,
                                      !.cipher = c, !.codec = z, !.given = k]
    <3>2. Start(d) /\ Fits(d)
      BY <3>1, <1>1
    <3> HIDE DEF d
    <3> QED BY <3>2
  <2>2. CASE \E s \in Sources, n \in Overrides, z \in Codecs, k \in KeyArgs :
         Start([NoCommand EXCEPT !.name = "add", !.list = <<s>>, !.as = n,
                                 !.codec = z, !.given = k])
    <3>1. PICK s \in Sources, n \in Overrides, z \in Codecs, k \in KeyArgs :
            Start([NoCommand EXCEPT !.name = "add", !.list = <<s>>, !.as = n,
                                    !.codec = z, !.given = k])
      BY <2>2, Zenon
    <3> DEFINE c == [NoCommand EXCEPT !.name = "add", !.list = <<s>>, !.as = n,
                                      !.codec = z, !.given = k]
    <3>2. Start(c) /\ Fits(c)
      BY <3>1, <1>2
    <3> HIDE DEF c
    <3> QED BY <3>2
  <2>3. CASE \E n \in Names, soft \in BOOLEAN, k \in KeyArgs :
         Start([NoCommand EXCEPT !.name = "delete", !.as = n, !.soft = soft, !.given = k])
    BY <2>3, <1>3
  <2>4. CASE \E l \in NameLists, k \in KeyArgs :
         Start([NoCommand EXCEPT !.name = "extract", !.list = l, !.given = k])
    BY <2>4, <1>4
  <2>5. CASE \E n \in Names, k \in KeyArgs :
         Start([NoCommand EXCEPT !.name = "recover", !.as = n, !.given = k])
    BY <2>5, <1>5
  <2>6. CASE \E soft \in BOOLEAN, names \in Matching, k \in KeyArgs :
         Start([NoCommand EXCEPT !.name = "list", !.soft = soft, !.prefix = names,
                                 !.given = k])
    BY <2>6, <1>6
  <2>7. CASE \E k \in KeyArgs : Start([NoCommand EXCEPT !.name = "info", !.given = k])
    BY <2>7, <1>7
  <2>8. CASE \E p \in InputPaths, fl \in SUBSET {"compress", "decompress"} :
         Len(p) < 4 /\ Start([NoCommand EXCEPT !.name = "compress", !.path = p, !.flags = fl])
    BY <2>8, <1>8
  <2> QED BY <2>1, <2>2, <2>3, <2>4, <2>5, <2>6, <2>7, <2>8, Zenon DEF Begin
<1> QED BY <1>9 DEF Fits

LEMMA BeginKeeps == ASSUME CliInv, Begin PROVE CliInv'
<1>0. Shapes /\ Undone
  BY DEF CliInv
<1>1. PICK c : /\ Start(c) /\ DOMAIN c = CommandFields /\ c.name \in CommandNames
               /\ c.at = 1 /\ IsSequence(c.list)
               /\ c.name = "compress" => c.path \in Paths
  BY <1>0, Begun
<1>2. /\ cmd' = [c EXCEPT !.pc = "options", !.edits = edits]
      /\ before' = IF c.name = "create" THEN archive ELSE NoArchive
      /\ stored' = <<>> /\ result' = NoResult
      /\ UNCHANGED <<archive, undo, made, edits>>
  BY <1>1 DEF Start, files
<1>3. /\ DOMAIN cmd' = CommandFields /\ cmd'.name = c.name /\ cmd'.pc = "options"
      /\ cmd'.at = 1 /\ cmd'.list = c.list /\ cmd'.edits = edits /\ cmd'.path = c.path
  BY <1>1, <1>2 DEF CommandFields
<1>4. c.name \in DOMAIN Stages /\ "options" \in Stages[c.name]
  BY <1>1, StagesAre DEF CommandNames
<1>5. Shapes'
  BY <1>0, <1>1, <1>2, <1>3, <1>4, Constants DEF Shapes
<1>6. Undone'
  <2>1. SoftDeleted(archive)' = SoftDeleted(archive)
    BY <1>2 DEF SoftDeleted
  <2> QED BY <1>0, <1>2, <1>3, <2>1 DEF Undone
<1>7. Creating' /\ Extracting' /\ Compressing'
  BY <1>1, <1>2, <1>3 DEF Creating, Extracting, Compressing
<1> QED BY <1>3, <1>5, <1>6, <1>7, NotEnded DEF CliInv

\* A create that ends before it stored anything.
LEMMA CreateSpared ==
    ASSUME CliInv, cmd.name = "create", cmd.pc \in {"options", "init"},
           Exit(Fail) \/ Exit(FaultFound), UNCHANGED <<archive, before, stored>>
    PROVE  CreateStoresPrefix'
<1>1. result'.code = 1
  BY Exited, Constants DEF CliInv
<1> QED BY <1>1 DEF CliInv, Creating, CreateStoresPrefix

LEMMA CheckOptionsKeeps == ASSUME CliInv, CheckOptions PROVE CliInv'
<1>0. /\ Shapes /\ Creating /\ Extracting /\ cmd.pc = "options" /\ cmd.name # "compress"
      /\ UNCHANGED <<archive, undo, edits, made, before, stored>>
  BY DEF CliInv, CheckOptions, At, files, ghosts, bounds
<1>1. CASE OptionsFit
  <2>1. /\ cmd' = [cmd EXCEPT !.pc  = IF cmd.name = "create" THEN "init" ELSE "open",
                              !.codec = "",
                              !.key = IF cmd.name = "create" /\ cmd.cipher = ""
                                      THEN NoKey ELSE ResolveKey(cmd.given),
                              !.given = NotGiven]
        /\ UNCHANGED result
    BY <1>1 DEF CheckOptions
  <2>2. /\ DOMAIN cmd' = CommandFields /\ cmd'.name = cmd.name
        /\ cmd'.pc = IF cmd.name = "create" THEN "init" ELSE "open"
        /\ cmd'.at = cmd.at /\ cmd'.list = cmd.list /\ cmd'.edits = cmd.edits
    BY <1>0, <2>1 DEF CommandFields, Shapes
  <2>3. cmd'.pc \in Stages[cmd.name] \ {"idle", "files"}
    BY <1>0, <2>2, StagesAre, StageOf DEF Shapes
  <2>4. IsSequence(cmd'.list) /\ cmd'.at \in Nat \ {0}
    BY <1>0, <2>2 DEF Shapes
  <2>5. Creating' /\ Extracting' /\ Compressing'
    BY <1>0, <2>2 DEF Creating, Extracting, Compressing
  <2> QED BY <1>0, <2>1, <2>2, <2>3, <2>4, <2>5, QuietMove
<1>2. CASE ~OptionsFit
  <2>1. Exit(Fail)
    BY <1>2 DEF CheckOptions
  <2>2. result'.pc = "options" /\ result'.name = cmd.name
    BY <1>0, <2>1, Exited, Constants
  <2>3. cmd.name = "create" => CreateStoresPrefix'
    BY <1>0, <2>1, CreateSpared
  <2>4. ExtractWritesArchive'
    BY <2>2 DEF ExtractWritesArchive
  <2>5. DOMAIN made' \subseteq Paths
    BY <1>0 DEF Shapes
  <2> QED BY <1>0, <2>1, <2>3, <2>4, <2>5, QuietExit, Constants
<1> QED BY <1>1, <1>2

\* A command that ends with a change of the archive.
LEMMA ExitKeeps ==
    ASSUME CliInv, NEW r, DOMAIN r = ResultFields, Exit(r), UNCHANGED <<made, edits>>,
           cmd.name \in {"create", "add", "delete"}, cmd.name = "create" => CreateStoresPrefix',
           DOMAIN archive' = ArchiveFields, IsFiniteSet(DOMAIN archive'.files),
           \A n \in DOMAIN archive'.files : IsEntry(archive'.files[n]),
           \E n : DOMAIN undo' \subseteq {n},
           SoftDeleted(archive)' = DOMAIN undo',
           \A n \in DOMAIN undo' : archive'.files[n].data = undo'[n]
    PROVE  CliInv'
<1>0. Shapes
  BY DEF CliInv
<1>1. /\ cmd' = NoCommand /\ DOMAIN result' = ResultFields /\ result'.name = cmd.name
      /\ Creating' /\ Extracting' /\ Compressing'
  BY <1>0, Exited
<1>2. Shapes'
  <2>1. DOMAIN made' \subseteq Paths
    BY <1>0 DEF Shapes
  <2> QED BY <1>0, <1>1, <2>1, IdleShapes
<1>3. Undone'
  BY <1>1, Constants DEF Undone
<1>4. CreateStoresPrefix' /\ ExtractWritesArchive' /\ CompressKeepsInput'
  BY <1>1 DEF CreateStoresPrefix, ExtractWritesArchive, CompressKeepsInput, Ended
<1> QED BY <1>1, <1>2, <1>3, <1>4 DEF CliInv

LEMMA InitArchiveKeeps == ASSUME CliInv, InitArchive PROVE CliInv'
<1>0. /\ Shapes /\ Creating /\ cmd.pc = "init" /\ cmd.name = "create"
      /\ UNCHANGED <<edits, made, before, stored>>
  BY StageOf DEF CliInv, InitArchive, At, files
<1>1. CASE cmd.cipher # "" /\ Len(cmd.key) # KeyBytes
  <2>1. Exit(Fail) /\ UNCHANGED <<archive, undo>>
    BY <1>1 DEF InitArchive
  <2>2. CreateStoresPrefix'
    BY <1>0, <2>1, CreateSpared
  <2>3. DOMAIN made' \subseteq Paths
    BY <1>0 DEF Shapes
  <2> QED BY <1>0, <2>1, <2>2, <2>3, QuietExit, Constants
<1>2. CASE ~(cmd.cipher # "" /\ Len(cmd.key) # KeyBytes)
  <2>1. /\ archive' = [NoArchive EXCEPT !.state = "unfinished", !.cipher = CipherOf(cmd.cipher),
                                        !.key = cmd.key]
        /\ undo' = Empty
    BY <1>2 DEF InitArchive
  <2>3. DOMAIN archive' = ArchiveFields /\ archive'.state = "unfinished" /\ archive'.files = Empty
    BY <2>1 DEF NoArchive, ArchiveFields
  <2>4. DOMAIN Empty = {}
    BY DEF Empty
  <2>5. /\ DOMAIN undo' = {} /\ SoftDeleted(archive)' = {}
        /\ IsFiniteSet(DOMAIN archive'.files) /\ DOMAIN archive'.files = {}
    BY <2>1, <2>3, <2>4, FS_EmptySet DEF SoftDeleted
  <2>6. CASE cmd' = [cmd EXCEPT !.pc = "files"] /\ UNCHANGED result
    <3>1. /\ DOMAIN cmd' = CommandFields /\ cmd'.name = "create" /\ cmd'.pc = "files"
          /\ cmd'.at = cmd.at /\ cmd'.list = cmd.list /\ cmd'.edits = cmd.edits
      BY <1>0, <2>6 DEF CommandFields, Shapes
    <3>2. Shapes'
      BY <1>0, <2>3, <2>5, <2>6, <3>1, StagesAre DEF Shapes
    <3>3. Undone'
      BY <2>5 DEF Undone
    <3>4. FilesOf(<<>>) = Empty
      BY DEF FilesOf, Empty
    <3>5. stored' = <<>> /\ cmd'.at = 1
      BY <1>0, <3>1 DEF Creating
    <3>6. Len(cmd.list) \in Nat
      BY <1>0, SequenceIs DEF Shapes
    <3>7. Creating'
      BY <2>3, <3>1, <3>4, <3>5, <3>6, EmptySequence DEF Creating
    <3>8. Extracting' /\ Compressing'
      BY <3>1 DEF Extracting, Compressing
    <3> QED BY <3>1, <3>2, <3>3, <3>7, <3>8, NotEnded DEF CliInv
  <2>7. CASE Exit(FaultFound)
    <3>1. result'.code = 1 /\ result'.fault = TRUE
      BY <1>0, <2>7, Exited, Constants
    <3>2. CreateStoresPrefix'
      BY <2>3, <3>1 DEF CreateStoresPrefix
    <3> QED BY <1>0, <2>3, <2>5, <2>7, <3>2, ExitKeeps, Constants
  <2> QED BY <1>2, <2>6, <2>7 DEF InitArchive, Goto
<1> QED BY <1>1, <1>2

\* A create ends, having stored the sources before the one it is at.
LEMMA CreateEnds ==
    ASSUME CliInv, cmd.pc = "files", archive' \in FinalisedOrNot,
           NEW r, DOMAIN r = ResultFields, Exit(r), UNCHANGED <<made, edits, stored, undo>>,
           \/ r.code = 0 /\ cmd.at > Len(cmd.list) /\ archive' = Finalised(archive)
           \/ r.code = 1 /\ cmd.at <= Len(cmd.list) /\ archive' = Finalised(archive)
           \/ r.code = 1 /\ r.fault
    PROVE  CliInv'
<1>0. /\ Shapes /\ Undone /\ Creating /\ cmd.name = "create"
  BY StageOf DEF CliInv
<1>1. /\ DOMAIN archive' = ArchiveFields /\ archive'.files = archive.files
      /\ \/ archive'.state = "whole"
         \/ archive' # Finalised(archive) /\ archive'.state = "unfinished"
  <2>1. CASE archive' = Finalised(archive)
    BY <1>0, <2>1 DEF Finalised, Shapes, ArchiveFields
  <2>2. CASE archive' = archive /\ archive' # Finalised(archive)
    BY <1>0, <2>2 DEF Shapes, Creating
  <2> QED BY <2>1, <2>2 DEF FinalisedOrNot
<1>2. Len(cmd.list) \in Nat /\ cmd.at \in Nat
  BY <1>0, SequenceIs DEF Shapes
<1>3. /\ archive.files = FilesOf(stored) /\ Len(stored) = cmd.at - 1
      /\ cmd.at <= Len(cmd.list) + 1
  BY <1>0 DEF Creating
<1>4. result'.code = r.code /\ result'.list = cmd.list /\ result'.fault = r.fault
  BY <1>0, Exited
<1>5. /\ r.code = 0 => Len(stored) = Len(cmd.list)
      /\ r.code = 1 /\ ~r.fault => Len(stored) < Len(cmd.list)
      /\ (r.code = 1 /\ r.fault) \/ archive'.state = "whole"
  BY <1>1, <1>2, <1>3
<1>6. FilesOf(stored)' = FilesOf(stored)
  BY DEF FilesOf, Latest
<1>7. CreateStoresPrefix'
  BY <1>1, <1>3, <1>4, <1>5, <1>6 DEF CreateStoresPrefix
<1>8. SoftDeleted(archive)' = SoftDeleted(archive)
  BY <1>1 DEF SoftDeleted
<1>9. /\ \E n : DOMAIN undo' \subseteq {n}
      /\ SoftDeleted(archive)' = DOMAIN undo'
      /\ \A n \in DOMAIN undo' : archive'.files[n].data = undo'[n]
  BY <1>0, <1>1, <1>8 DEF Undone
<1>10. /\ IsFiniteSet(DOMAIN archive'.files)
       /\ \A n \in DOMAIN archive'.files : IsEntry(archive'.files[n])
  BY <1>0, <1>1 DEF Shapes
<1> QED BY <1>0, <1>1, <1>7, <1>9, <1>10, ExitKeeps

\* What it means to put a file into the files of an archive.
LEMMA PutFile ==
    ASSUME NEW f, IsFiniteSet(DOMAIN f), \A n \in DOMAIN f : IsEntry(f[n]),
           \A n \in DOMAIN f : ~f[n].deleted, NEW n, NEW x
    PROVE  /\ IsFiniteSet(DOMAIN Put(f, n, File(x)))
           /\ \A m \in DOMAIN Put(f, n, File(x)) : /\ IsEntry(Put(f, n, File(x))[m])
                                                   /\ ~Put(f, n, File(x))[m].deleted
<1>1. IsFiniteSet(DOMAIN f \cup {n})
  BY FS_AddElement
<1>2. DOMAIN File(x) = {"data", "deleted"} /\ File(x).deleted = FALSE
  BY DEF File
<1>3. IsEntry(File(x)) /\ ~File(x).deleted
  BY <1>2 DEF IsEntry
<1> QED BY <1>1, <1>3 DEF Put

LEMMA CreateNextKeeps == ASSUME CliInv, CreateNext PROVE CliInv'
<1> DEFINE s == cmd.list[cmd.at]
<1>0. /\ Shapes /\ Undone /\ Creating /\ cmd.pc = "files" /\ cmd.name = "create"
      /\ cmd.at <= Len(cmd.list)
      /\ UNCHANGED <<edits, made, undo>>
  BY StageOf DEF CliInv, CreateNext, At, files
<1>1. CASE archive' = Finalised(archive) /\ Exit(Fail) /\ UNCHANGED stored
  BY <1>0, <1>1, CreateEnds, Constants DEF FinalisedOrNot
<1>3. CASE archive' \in FinalisedOrNot /\ Exit(FaultFound) /\ UNCHANGED stored
  BY <1>0, <1>3, CreateEnds, Constants
<1>2. CASE /\ archive' = [archive EXCEPT !.files = Put(@, NameOf(s), File(src[s]))]
           /\ stored' = Append(stored, [name |-> NameOf(s), data |-> src[s]])
           /\ cmd' = [cmd EXCEPT !.at = @ + 1]
           /\ UNCHANGED result
  <2> DEFINE n == NameOf(s)  x == src[s]
             e == [name |-> n, data |-> x]
  <2>1. /\ archive' = [archive EXCEPT !.files = Put(@, n, File(x))]
        /\ stored' = Append(stored, e)
        /\ cmd' = [cmd EXCEPT !.at = @ + 1] /\ UNCHANGED result
    BY <1>2
  <2>2. e.name = n /\ e.data = x
    OBVIOUS
  <2> HIDE DEF n, x, e, s
  <2>3. /\ DOMAIN archive' = ArchiveFields /\ archive'.files = Put(archive.files, n, File(x))
        /\ archive'.state = archive.state
    BY <1>0, <2>1 DEF Shapes, ArchiveFields
  <2>4. /\ DOMAIN cmd' = CommandFields /\ cmd'.at = cmd.at + 1 /\ cmd'.name = "create"
        /\ cmd'.pc = "files" /\ cmd'.list = cmd.list /\ cmd'.edits = cmd.edits
    BY <1>0, <2>1 DEF Shapes, CommandFields
  <2>5. /\ archive.state = "unfinished" /\ archive.files = FilesOf(stored)
        /\ IsSequence(stored) /\ Len(stored) = cmd.at - 1
    BY <1>0 DEF Creating
  <2>6. cmd.at \in Nat \ {0} /\ Len(cmd.list) \in Nat
    BY <1>0, SequenceIs DEF Shapes
  <2>7. DOMAIN undo = {} /\ \A m \in DOMAIN archive.files : ~archive.files[m].deleted
    BY <1>0 DEF Undone, SoftDeleted
  <2>8. /\ IsFiniteSet(DOMAIN archive'.files)
        /\ \A m \in DOMAIN archive'.files : /\ IsEntry(archive'.files[m])
                                            /\ ~archive'.files[m].deleted
    <3>1. /\ IsFiniteSet(DOMAIN archive.files)
          /\ \A m \in DOMAIN archive.files : IsEntry(archive.files[m])
      BY <1>0 DEF Shapes
    <3> QED BY <2>3, <2>7, <3>1, PutFile
  <2>9. IsSequence(stored') /\ Len(stored') = Len(stored) + 1 /\ Len(stored) \in Nat
    BY <2>1, <2>5, AppendIs
  <2>10. FilesOf(stored)' = Put(FilesOf(stored), n, File(x))
    <3>1. FilesOf(Append(stored, e)) = Put(FilesOf(stored), n, File(x))
      BY <2>2, <2>5, FilesOfAppend
    <3>2. FilesOf(stored)' = FilesOf(stored')
      BY DEF FilesOf, Latest
    <3> QED BY <2>1, <3>1, <3>2
  <2>11. cmd'.at \in Nat \ {0} /\ Len(stored') = cmd'.at - 1 /\ cmd'.at <= Len(cmd.list) + 1
    BY <1>0, <2>4, <2>5, <2>6, <2>9
  <2>12. Creating'
    BY <2>3, <2>4, <2>5, <2>9, <2>10, <2>11 DEF Creating
  <2>13. Shapes'
    BY <1>0, <2>1, <2>3, <2>4, <2>8, <2>11, StagesAre DEF Shapes
  <2>14. Undone'
    <3>1. SoftDeleted(archive)' = {}
      BY <2>8 DEF SoftDeleted
    <3> QED BY <1>0, <2>7, <3>1 DEF Undone
  <2>15. Extracting' /\ Compressing'
    BY <2>4 DEF Extracting, Compressing
  <2> QED BY <2>4, <2>12, <2>13, <2>14, <2>15, NotEnded DEF CliInv
<1> QED BY <1>1, <1>2, <1>3 DEF CreateNext

LEMMA CreateDoneKeeps == ASSUME CliInv, CreateDone PROVE CliInv'
<1> DEFINE r == [Done EXCEPT !.active = Len(cmd.list)]
<1>1. DOMAIN r = ResultFields /\ r.code = 0
  BY Constants DEF ResultFields
<1>2. /\ cmd.pc = "files" /\ cmd.at > Len(cmd.list)
      /\ UNCHANGED <<made, edits, stored, undo>>
  BY DEF CreateDone, Completed, At, files, ghosts
<1>3. \/ archive' = Finalised(archive) /\ Exit(r)
      \/ archive' \in FinalisedOrNot /\ Exit(FaultFound)
  BY DEF CreateDone, Completed
<1> HIDE DEF r
<1>4. CASE archive' = Finalised(archive) /\ Exit(r)
  BY <1>1, <1>2, <1>4, CreateEnds DEF FinalisedOrNot
<1>5. CASE archive' \in FinalisedOrNot /\ Exit(FaultFound)
  BY <1>2, <1>5, CreateEnds, Constants
<1> QED BY <1>3, <1>4, <1>5

LEMMA ListFilesIs == Shapes => IsSequence(ListFiles)
<1> SUFFICES ASSUME Shapes PROVE IsSequence(ListFiles)
  OBVIOUS
<1> DEFINE N == Cardinality(Live(archive))
           Nth(i) == CHOOSE n \in Live(archive) : Cardinality({m \in Live(archive) : m < n}) = i - 1
<1>1. Live(archive) \subseteq DOMAIN archive.files
  BY DEF Live
<1>2. IsFiniteSet(Live(archive))
  BY <1>1, FS_Subset DEF Shapes
<1>3. N \in Nat
  BY <1>2, FS_CardinalityType
<1>4. ListFiles = [i \in 1..N |-> Nth(i)]
  BY DEF ListFiles
<1> HIDE DEF N, Nth
<1>5. ListFiles = [i \in 1..N |-> ListFiles[i]]
  BY <1>4
<1> HIDE <1>4
<1> QED BY <1>3, <1>5, FunctionIsSequence

\* A command other than create and compress that ends without a change of the archive.
LEMMA PlainExit ==
    ASSUME CliInv, NEW r, DOMAIN r = ResultFields, Exit(r),
           UNCHANGED <<archive, undo, made, edits>>,
           cmd.name \notin {"create", "compress"}, cmd.pc # "extract"
    PROVE  CliInv'
<1>1. result'.pc = cmd.pc
  BY Exited DEF CliInv
<1>2. ExtractWritesArchive'
  BY <1>1 DEF ExtractWritesArchive
<1>3. DOMAIN made' \subseteq Paths
  BY DEF CliInv, Shapes
<1> QED BY <1>2, <1>3, QuietExit

LEMMA OpenArchiveKeeps == ASSUME CliInv, OpenArchive PROVE CliInv'
<1>0. /\ Shapes /\ cmd.pc = "open" /\ cmd.at = 1
      /\ UNCHANGED <<archive, undo, made, edits>>
  BY DEF CliInv, OpenArchive, At, files, ghosts, bounds, Extracting
<1>1. /\ cmd.name \in {"add", "delete", "extract", "recover", "list", "info"}
      /\ cmd.name \in Stages[cmd.name] \ {"idle", "files"}
  <2>1. cmd.name \in {"add", "delete", "extract", "recover", "list", "info"}
    BY <1>0, StageOf
  <2> QED BY <2>1, StagesAre
<1>2. CASE Exit(Fail) \/ Exit(Done)
  BY <1>0, <1>1, <1>2, PlainExit, Constants
<1>3. CASE Goto(cmd.name)
  <2>1. cmd' = [cmd EXCEPT !.pc = cmd.name] /\ UNCHANGED result
    BY <1>3 DEF Goto
  <2>2. /\ DOMAIN cmd' = CommandFields /\ cmd'.name = cmd.name /\ cmd'.pc = cmd.name
        /\ cmd'.at = 1 /\ cmd'.list = cmd.list /\ cmd'.edits = cmd.edits
    BY <1>0, <2>1 DEF CommandFields, Shapes
  <2>3. IsSequence(cmd'.list) /\ Len(cmd'.list) \in Nat
    BY <1>0, <2>2, SequenceIs DEF Shapes
  <2>4. Extracting'
    BY <1>1, <2>2, <2>3 DEF Extracting
  <2>5. Creating' /\ Compressing'
    BY <1>1, <2>2 DEF Creating, Compressing
  <2> QED BY <1>0, <1>1, <2>1, <2>2, <2>3, <2>4, <2>5, QuietMove
<1>4. CASE /\ cmd' = [cmd EXCEPT !.pc = "extract", !.list = ListFiles] /\ UNCHANGED result
           /\ cmd.name = "extract"
  <2>1. /\ DOMAIN cmd' = CommandFields /\ cmd'.name = cmd.name /\ cmd'.pc = "extract"
        /\ cmd'.at = 1 /\ cmd'.list = ListFiles /\ cmd'.edits = cmd.edits
    BY <1>0, <1>4 DEF CommandFields, Shapes
  <2>2. IsSequence(cmd'.list) /\ Len(cmd'.list) \in Nat
    BY <1>0, <2>1, ListFilesIs, SequenceIs
  <2>3. Extracting'
    BY <2>1, <2>2 DEF Extracting
  <2>4. Creating' /\ Compressing'
    BY <1>4, <2>1 DEF Creating, Compressing
  <2>5. cmd'.pc \in Stages[cmd.name] \ {"idle", "files"} /\ cmd'.at \in Nat \ {0}
    BY <1>1, <1>4, <2>1
  <2> QED BY <1>0, <1>4, <2>1, <2>2, <2>3, <2>4, <2>5, QuietMove
<1> QED BY <1>2, <1>3, <1>4 DEF OpenArchive

\* The live files of an archive, and what is left when some of them go.
LEMMA OnlyLiveIs ==
    ASSUME Shapes
    PROVE  /\ DOMAIN OnlyLive(archive) = Live(archive)
           /\ Live(archive) \subseteq DOMAIN archive.files /\ IsFiniteSet(Live(archive))
           /\ \A n \in Live(archive) : /\ OnlyLive(archive)[n] = archive.files[n]
                                       /\ IsEntry(OnlyLive(archive)[n])
                                       /\ ~OnlyLive(archive)[n].deleted
<1>1. Live(archive) \subseteq DOMAIN archive.files
  BY DEF Live
<1>2. IsFiniteSet(Live(archive))
  BY <1>1, FS_Subset DEF Shapes
<1> QED BY <1>1, <1>2 DEF OnlyLive, Live, Shapes

\* A rewrite that leaves no soft-deleted file.
LEMMA RewrittenClean ==
    ASSUME CliInv, NEW new, Rewritten(new, Empty), cmd.name \in {"add", "delete"},
           IsFiniteSet(DOMAIN new), \A n \in DOMAIN new : IsEntry(new[n]) /\ ~new[n].deleted
    PROVE  CliInv'
<1>1. /\ archive' = [archive EXCEPT !.files = new] /\ undo' = Empty
      /\ Exit(Done) \/ Exit(FaultFound)
      /\ UNCHANGED <<made, edits>>
  BY DEF Rewritten, files
<1>2. DOMAIN archive' = ArchiveFields /\ archive'.files = new
  BY <1>1 DEF CliInv, Shapes, ArchiveFields
<1>3. DOMAIN undo' = {}
  BY <1>1 DEF Empty
<1>4. SoftDeleted(archive)' = {}
  BY <1>2 DEF SoftDeleted
<1>5. cmd.name # "create"
  OBVIOUS
<1> QED BY <1>1, <1>2, <1>3, <1>4, <1>5, ExitKeeps, Constants

LEMMA NotRewrittenKeeps ==
    ASSUME CliInv, NEW left, NotRewritten(left), cmd.name \in {"add", "delete"}
    PROVE  CliInv'
<1>1. Exit(Fail) /\ UNCHANGED <<archive, undo, made, edits>>
  BY DEF NotRewritten, files, ghosts
<1>2. cmd.pc # "extract"
  BY StageOf DEF CliInv
<1> QED BY <1>1, <1>2, PlainExit, Constants

LEMMA AddKeeps == ASSUME CliInv, Add PROVE CliInv'
<1> DEFINE s == cmd.list[1]
<1>0. Shapes /\ cmd.name = "add"
  BY StageOf DEF CliInv, Add, At
<1>1. CASE \E left : NotRewritten(left)
  BY <1>0, <1>1, NotRewrittenKeeps
<1>2. CASE Rewritten(Put(OnlyLive(archive), NameOf(s), File(src[s])), Empty)
  <2> DEFINE new == Put(OnlyLive(archive), NameOf(s), File(src[s]))
  <2>1. IsFiniteSet(DOMAIN new) /\ \A n \in DOMAIN new : IsEntry(new[n]) /\ ~new[n].deleted
    BY <1>0, OnlyLiveIs, PutFile
  <2>2. Rewritten(new, Empty)
    BY <1>2
  <2> HIDE DEF new
  <2> QED BY <1>0, <2>1, <2>2, RewrittenClean
<1> QED BY <1>1, <1>2 DEF Add, RewriteFails

LEMMA DeleteKeeps == ASSUME CliInv, Delete PROVE CliInv'
<1> DEFINE n == cmd.as  live == OnlyLive(archive)
<1>0. Shapes /\ cmd.name = "delete" /\ cmd.pc = "delete"
  BY StageOf DEF CliInv, Delete, At
<1>00. /\ DOMAIN live = Live(archive)
       /\ Live(archive) \subseteq DOMAIN archive.files /\ IsFiniteSet(Live(archive))
       /\ \A m \in Live(archive) : /\ live[m] = archive.files[m]
                                   /\ IsEntry(live[m]) /\ ~live[m].deleted
  BY <1>0, OnlyLiveIs
<1>1. CASE Exit(Fail) /\ UNCHANGED <<files, archive, stray, ghosts, bounds>>
  BY <1>0, <1>1, PlainExit, Constants DEF files, ghosts, bounds
<1>2. CASE Rewritten(Drop(live, n), Empty)
  <2>1. DOMAIN Drop(live, n) = Live(archive) \ {n}
    BY <1>00 DEF Drop
  <2>2. IsFiniteSet(Live(archive) \ {n})
    <3>1. Live(archive) \ {n} \subseteq Live(archive)
      OBVIOUS
    <3> QED BY <1>00, <3>1, FS_Subset
  <2>3. \A m \in DOMAIN Drop(live, n) : IsEntry(Drop(live, n)[m]) /\ ~Drop(live, n)[m].deleted
    BY <1>00 DEF Drop
  <2> HIDE DEF live
  <2> QED BY <1>0, <1>2, <2>1, <2>2, <2>3, RewrittenClean
<1>3. CASE \E left : NotRewritten(left)
  BY <1>0, <1>3, NotRewrittenKeeps
<1>4. CASE /\ n \in DOMAIN live
           /\ Rewritten([live EXCEPT ![n].deleted = TRUE], Put(Empty, n, live[n].data))
  <2> DEFINE new == [live EXCEPT ![n].deleted = TRUE]
  <2>1. /\ archive' = [archive EXCEPT !.files = new] /\ undo' = Put(Empty, n, live[n].data)
        /\ Exit(Done) \/ Exit(FaultFound)
        /\ UNCHANGED <<made, edits>>
    BY <1>4 DEF Rewritten, files
  <2> HIDE DEF live
  <2>2. /\ DOMAIN new = Live(archive)
        /\ \A m \in Live(archive) \ {n} : new[m] = live[m]
        /\ new[n] = [live[n] EXCEPT !.deleted = TRUE]
    BY <1>00, <1>4
  <2>3. IsEntry(new[n]) /\ new[n].deleted = TRUE /\ new[n].data = live[n].data
    BY <1>00, <1>4, <2>2 DEF IsEntry
  <2> HIDE DEF new
  <2>4. \A m \in DOMAIN new : IsEntry(new[m]) /\ (new[m].deleted <=> m = n)
    BY <1>00, <2>2, <2>3
  <2>5. DOMAIN archive' = ArchiveFields /\ archive'.files = new
    BY <1>0, <2>1 DEF Shapes, ArchiveFields
  <2>6. DOMAIN undo' = {n} /\ undo'[n] = live[n].data
    BY <2>1 DEF Put, Empty
  <2>7. SoftDeleted(archive)' = {n}
    BY <1>00, <1>4, <2>2, <2>4, <2>5 DEF SoftDeleted
  <2>8. /\ \E k : DOMAIN undo' \subseteq {k}
        /\ \A k \in DOMAIN undo' : archive'.files[k].data = undo'[k]
    BY <2>3, <2>5, <2>6
  <2>9. IsFiniteSet(DOMAIN archive'.files)
    BY <1>00, <2>2, <2>5
  <2> QED BY <1>0, <2>1, <2>4, <2>5, <2>6, <2>7, <2>8, <2>9, ExitKeeps, Constants
<1> QED BY <1>1, <1>2, <1>3, <1>4 DEF Delete, RewriteFails

\* An extract stops at its next path.
LEMMA ExtractStops ==
    ASSUME CliInv, cmd.pc = "extract", cmd.at <= Len(cmd.list), NEW r, DOMAIN r = ResultFields,
           Exit(r), r.code = 1, r.fault \/ cmd.list[cmd.at] \notin Live(archive),
           UNCHANGED <<archive, undo, made, edits, extracted, cut>>
    PROVE  CliInv'
<1>0. Shapes /\ Extracting /\ cmd.name = "extract"
  BY StageOf DEF CliInv
<1>1. /\ Len(cmd.list) \in Nat /\ cmd.at \in Nat \ {0} /\ DOMAIN cmd.list = 1..Len(cmd.list)
  BY <1>0, SequenceIs DEF Shapes
<1>2. Live(archive)' = Live(archive)
  BY DEF Live
<1>3. /\ result'.code = 1 /\ result'.list = cmd.list /\ result'.at = cmd.at
      /\ result'.fault = r.fault
  BY <1>0, Exited
<1>4. cmd.at \in DOMAIN cmd.list
  BY <1>1
<1>5. \A i \in DOMAIN cmd.list : i < cmd.at => i \in 1..cmd.at - 1
  BY <1>1
<1>6. ExtractWritesArchive'
  BY <1>0, <1>2, <1>3, <1>4, <1>5 DEF ExtractWritesArchive, Extracting
<1>7. DOMAIN made' \subseteq Paths
  BY <1>0 DEF Shapes
<1> QED BY <1>0, <1>6, <1>7, QuietExit

LEMMA ExtractNextKeeps == ASSUME CliInv, ExtractNext PROVE CliInv'
<1> DEFINE n == cmd.list[cmd.at]
<1>0. /\ Shapes /\ Undone /\ Extracting /\ cmd.pc = "extract" /\ cmd.name = "extract"
      /\ cmd.at <= Len(cmd.list)
      /\ UNCHANGED <<archive, undo, made, edits>>
  BY StageOf DEF CliInv, ExtractNext, At, ghosts
<1>1. /\ Len(cmd.list) \in Nat /\ cmd.at \in Nat \ {0} /\ DOMAIN cmd.list = 1..Len(cmd.list)
  BY <1>0, SequenceIs DEF Shapes
<1>2. Live(archive)' = Live(archive)
  BY <1>0 DEF Live
<1>3. \A i \in 1..cmd.at - 1 :
        /\ cmd.list[i] \in Live(archive) /\ cmd.list[i] \in DOMAIN extracted
        /\ \/ <<"name", cmd.list[i]>> \in cut
           \/ extracted[cmd.list[i]] = archive.files[cmd.list[i]].data
  BY <1>0 DEF Extracting
<1>4. CASE n \notin Live(archive)
  <2>1. Exit(Fail) /\ UNCHANGED <<extracted, cut>>
    BY <1>4 DEF ExtractNext
  <2> QED BY <1>0, <1>4, <2>1, ExtractStops, Constants
<1>5. CASE n \in Live(archive)
  <2>1. /\ Written(extracted, n, "name", archive.files[n].data)
        /\ cmd' = [cmd EXCEPT !.at = @ + 1]
        /\ UNCHANGED result
    BY <1>5 DEF ExtractNext
  <2>2. /\ DOMAIN cmd' = CommandFields /\ cmd'.name = "extract" /\ cmd'.pc = "extract"
        /\ cmd'.at = cmd.at + 1 /\ cmd'.list = cmd.list /\ cmd'.edits = cmd.edits
    BY <1>0, <2>1 DEF CommandFields, Shapes
  <2> HIDE DEF n
  <2>3. \A i \in 1..cmd.at - 1 :
          /\ cmd.list[i] \in DOMAIN extracted'
          /\ \/ <<"name", cmd.list[i]>> \in cut'
             \/ extracted'[cmd.list[i]] = archive.files[cmd.list[i]].data
    BY <1>3, <2>1 DEF Written, Put
  <2>4. /\ n \in DOMAIN extracted'
        /\ <<"name", n>> \in cut' \/ extracted'[n] = archive.files[n].data
    BY <2>1 DEF Written, Put
  <2>5. cmd'.at <= Len(cmd'.list) + 1 /\ cmd'.at \in Nat \ {0} /\ cmd'.at - 1 = cmd.at
    BY <1>0, <1>1, <2>2
  <2>6. \A i \in 1..cmd.at : i \in 1..cmd.at - 1 \/ i = cmd.at
    BY <1>1
  <2>7. Extracting'
    <3> SUFFICES ASSUME NEW i \in 1..cmd.at
                 PROVE  /\ cmd.list[i] \in Live(archive)
                        /\ cmd.list[i] \in DOMAIN extracted'
                        /\ \/ <<"name", cmd.list[i]>> \in cut'
                           \/ extracted'[cmd.list[i]] = archive.files[cmd.list[i]].data
      BY <1>0, <1>2, <2>2, <2>5 DEF Extracting
    <3>1. CASE i \in 1..cmd.at - 1
      BY <1>3, <2>3, <3>1
    <3>2. CASE i = cmd.at
      BY <1>5, <2>4, <3>2 DEF n
    <3> QED BY <2>6, <3>1, <3>2
  <2>8. Creating' /\ Compressing'
    BY <2>2 DEF Creating, Compressing
  <2>9. cmd'.pc \in Stages[cmd.name] \ {"idle", "files"}
    BY <1>0, <2>2, StagesAre
  <2>10. IsSequence(cmd'.list)
    BY <1>0, <2>2 DEF Shapes
  <2> QED BY <1>0, <2>1, <2>2, <2>5, <2>7, <2>8, <2>9, <2>10, QuietMove
<1> QED BY <1>4, <1>5

LEMMA ExtractDoneKeeps == ASSUME CliInv, ExtractDone PROVE CliInv'
<1> DEFINE r == [Done EXCEPT !.active = Len(cmd.list)]
<1>1. DOMAIN r = ResultFields /\ r.code = 0
  BY Constants DEF ResultFields
<1>2. /\ Shapes /\ Extracting /\ cmd.pc = "extract" /\ cmd.name = "extract"
      /\ cmd.at > Len(cmd.list) /\ Exit(r)
      /\ UNCHANGED <<archive, undo, made, edits, extracted, cut>>
  BY StageOf DEF CliInv, ExtractDone, At, files, ghosts, bounds
<1> HIDE DEF r
<1>3. /\ Len(cmd.list) \in Nat /\ cmd.at \in Nat \ {0} /\ DOMAIN cmd.list = 1..Len(cmd.list)
  BY <1>2, SequenceIs DEF Shapes
<1>4. cmd.at - 1 = Len(cmd.list)
  BY <1>2, <1>3 DEF Extracting
<1>5. \A i \in DOMAIN cmd.list :
        /\ cmd.list[i] \in Live(archive)
        /\ \/ <<"name", cmd.list[i]>> \in cut
           \/ extracted[cmd.list[i]] = archive.files[cmd.list[i]].data
  BY <1>2, <1>3, <1>4 DEF Extracting
<1>6. Live(archive)' = Live(archive)
  BY <1>2 DEF Live
<1>7. result'.code = 0 /\ result'.list = cmd.list /\ result'.at = cmd.at
  BY <1>1, <1>2, Exited
<1>10. cmd.at \notin DOMAIN cmd.list
  BY <1>2, <1>3
<1>8. ExtractWritesArchive'
  BY <1>2, <1>5, <1>6, <1>7, <1>10 DEF ExtractWritesArchive
<1>9. DOMAIN made' \subseteq Paths
  BY <1>2 DEF Shapes
<1> QED BY <1>1, <1>2, <1>8, <1>9, QuietExit

LEMMA RecoverKeeps == ASSUME CliInv, Recover PROVE CliInv'
<1>0. /\ Shapes /\ cmd.pc = "recover" /\ cmd.name = "recover"
      /\ UNCHANGED <<archive, undo, made, edits>>
  BY StageOf DEF CliInv, Recover, At, files, ghosts, bounds
<1>1. CASE Exit(Fail)
  BY <1>0, <1>1, PlainExit, Constants
<1>2. CASE /\ cmd' = [cmd EXCEPT !.pc = "write", !.buf = archive.files[cmd.as].data]
           /\ UNCHANGED result
  <2>1. /\ DOMAIN cmd' = CommandFields /\ cmd'.name = "recover" /\ cmd'.pc = "write"
        /\ cmd'.at = cmd.at /\ cmd'.list = cmd.list /\ cmd'.edits = cmd.edits
    BY <1>0, <1>2 DEF CommandFields, Shapes
  <2>2. Creating' /\ Extracting' /\ Compressing'
    BY <2>1 DEF Creating, Extracting, Compressing
  <2>3. cmd'.pc \in Stages[cmd.name] \ {"idle", "files"}
    BY <1>0, <2>1, StagesAre
  <2>4. IsSequence(cmd'.list) /\ cmd'.at \in Nat \ {0}
    BY <1>0, <2>1 DEF Shapes
  <2> QED BY <1>0, <1>2, <2>1, <2>2, <2>3, <2>4, QuietMove
<1> QED BY <1>1, <1>2 DEF Recover

LEMMA WriteRecoveredKeeps == ASSUME CliInv, WriteRecovered PROVE CliInv'
<1>1. /\ cmd.pc = "write" /\ cmd.name = "recover" /\ Exit(Done)
      /\ UNCHANGED <<archive, undo, made, edits>>
  BY DEF WriteRecovered, At, ghosts
<1> QED BY <1>1, PlainExit, Constants

LEMMA ListKeeps == ASSUME CliInv, List \/ Info PROVE CliInv'
<1>1. /\ cmd.pc \in {"list", "info"} /\ cmd.name \in {"list", "info"}
      /\ UNCHANGED <<archive, undo, made, edits>>
  BY StageOf DEF CliInv, List, Info, At, files, ghosts, bounds
<1>2. \A x : DOMAIN [Done EXCEPT !.names = x] = ResultFields
  BY Constants
<1>3. \A x, y : DOMAIN [Done EXCEPT !.active = x, !.names = y] = ResultFields
  BY Constants
<1>4. PICK r : DOMAIN r = ResultFields /\ Exit(r)
  <2>1. CASE List
    <3>1. PICK x : Exit([Done EXCEPT !.names = x])
      BY <2>1, Zenon DEF List
    <3> QED BY <1>2, <3>1, Zenon
  <2>2. CASE Info
    <3>1. PICK x, y : Exit([Done EXCEPT !.active = x, !.names = y])
      BY <2>2, Zenon DEF Info
    <3> QED BY <1>3, <3>1, Zenon
  <2> QED BY <2>1, <2>2
<1> QED BY <1>1, <1>4, PlainExit

\* A compress that fails, or that ends with what it should have written.
LEMMA CompressFails ==
    ASSUME CliInv, cmd.name = "compress", Exit(Fail) \/ Exit(FaultFound),
           UNCHANGED <<archive, undo, made, edits>>
    PROVE  CliInv'
<1>1. result'.code = 1
  BY Exited, Constants DEF CliInv
<1>2. CompressKeepsInput'
  BY <1>1 DEF CompressKeepsInput
<1>3. DOMAIN made' \subseteq Paths
  BY DEF CliInv, Shapes
<1> QED BY <1>2, <1>3, QuietExit, Constants

\* The next stage of a compress has what belongs to its input.
LEMMA CompressMoves ==
    ASSUME CliInv, cmd.name = "compress", DOMAIN cmd' = CommandFields,
           UNCHANGED <<src, result, archive, undo, made, edits>>,
           cmd'.name = "compress", cmd'.pc \in {"pack", "load", "code", "write"},
           cmd'.list = cmd.list, cmd'.at = cmd.at, cmd'.edits = cmd.edits,
           cmd'.path = cmd.path, cmd'.flags = cmd.flags,
           cmd.edits = edits => Compressing'
    PROVE  CliInv'
<1>1. Creating' /\ Extracting'
  BY DEF Creating, Extracting
<1>2. Compressing'
  BY DEF CliInv, Compressing
<1>3. cmd'.pc \in Stages[cmd.name] \ {"idle", "files"}
  BY StagesAre
<1>4. IsSequence(cmd'.list) /\ cmd'.at \in Nat \ {0}
  BY DEF CliInv, Shapes
<1> QED BY <1>1, <1>2, <1>3, <1>4, QuietMove

LEMMA CheckInputKeeps == ASSUME CliInv, CheckInput PROVE CliInv'
<1> DEFINE input == NodeAt(cmd.path)
<1>0. /\ Shapes /\ Compressing /\ cmd.pc = "options" /\ cmd.name = "compress"
      /\ UNCHANGED <<src, archive, undo, made, edits>>
  BY DEF CliInv, CheckInput, At, files, ghosts, bounds
<1>1. CASE Exit(Fail)
  BY <1>0, <1>1, CompressFails
<1>2. CASE input # Missing
  <2> DEFINE isdir == IsDirectory(input)
  <2>1. /\ cmd' = [cmd EXCEPT !.pc = IF isdir THEN "pack" ELSE "load", !.isdir = isdir,
                              !.buf = IF isdir THEN Packed(<<>>) ELSE Missing]
        /\ UNCHANGED result
    BY <1>2 DEF CheckInput
  <2>2. /\ DOMAIN cmd' = CommandFields /\ cmd'.name = "compress"
        /\ cmd'.pc = IF isdir THEN "pack" ELSE "load"
        /\ cmd'.at = cmd.at /\ cmd'.list = cmd.list /\ cmd'.edits = cmd.edits
        /\ cmd'.path = cmd.path /\ cmd'.flags = cmd.flags /\ cmd'.isdir = isdir
        /\ isdir => cmd'.buf = Packed(<<>>)
    BY <1>0, <2>1 DEF CommandFields, Shapes
  <2>3. NodeAt(cmd.path)' = input
    BY <1>0, <2>2 DEF NodeAt
  <2>4. EntriesOf(<<>>, input[2])
    BY EmptySequence DEF EntriesOf
  <2> HIDE DEF input
  <2>5. IsDirectory(input)' = IsDirectory(input)
    BY <2>3 DEF IsDirectory, input
  <2>6. Compressing'
    <3>1. cmd.path \in Paths
      BY <1>0 DEF Compressing
    <3>2. CASE isdir
      <4>1. cmd'.pc = "pack" /\ \E es : cmd'.buf = Packed(es) /\ EntriesOf(es, input[2])
        BY <2>2, <2>4, <3>2
      <4> QED BY <2>2, <2>3, <3>1, <3>2, <4>1 DEF Compressing, IsDirectory
    <3>3. CASE ~isdir
      BY <2>2, <2>3, <3>1, <3>3 DEF Compressing, IsDirectory
    <3> QED BY <3>2, <3>3
  <2> QED BY <1>0, <2>1, <2>2, <2>6, CompressMoves
<1> QED BY <1>1, <1>2 DEF CheckInput

LEMMA LoadKeeps == ASSUME CliInv, Load PROVE CliInv'
<1> DEFINE input == NodeAt(cmd.path)
<1>0. /\ Shapes /\ Compressing /\ cmd.pc = "load" /\ cmd.name = "compress"
      /\ UNCHANGED <<src, archive, undo, made, edits>>
  BY StageOf DEF CliInv, Load, At, files, ghosts, bounds
<1>1. CASE Exit(Fail)
  BY <1>0, <1>1, CompressFails
<1>2. CASE ~(input = Missing \/ IsDirectory(input))
  <2>1. /\ cmd' = [cmd EXCEPT !.pc = "code", !.buf = input] /\ UNCHANGED result
    BY <1>2 DEF Load
  <2>2. /\ DOMAIN cmd' = CommandFields /\ cmd'.name = "compress" /\ cmd'.pc = "code"
        /\ cmd'.at = cmd.at /\ cmd'.list = cmd.list /\ cmd'.edits = cmd.edits
        /\ cmd'.path = cmd.path /\ cmd'.flags = cmd.flags /\ cmd'.isdir = cmd.isdir
        /\ cmd'.buf = input
    BY <1>0, <2>1 DEF CommandFields, Shapes
  <2>3. NodeAt(cmd.path)' = input
    BY <1>0, <2>2 DEF NodeAt
  <2>4. cmd.path \in Paths /\ (cmd.edits = edits => cmd.isdir = IsDirectory(input))
    BY <1>0 DEF Compressing
  <2> HIDE DEF input
  <2>5. Holds(input, input)
    BY <1>2 DEF Holds
  <2>6. Compressing'
    BY <1>0, <1>2, <2>2, <2>3, <2>4, <2>5 DEF Compressing, IsDirectory, Holds
  <2> QED BY <1>0, <2>1, <2>2, <2>6, CompressMoves
<1> QED BY <1>1, <1>2 DEF Load

\* Entries that name every file of a directory hold it.
LEMMA AllEntriesHold ==
    ASSUME NEW es, NEW input, IsDirectory(input), EntriesOf(es, input[2]),
           DOMAIN input[2] \subseteq {es[i].name : i \in DOMAIN es}
    PROVE  Holds(Packed(es), input)
<1> DEFINE D == DOMAIN input[2]  l == Len(es)
<1>1. l \in Nat /\ DOMAIN es = 1..l
  BY SequenceIs DEF EntriesOf
<1>2. /\ \A i \in 1..l : es[i].name \in D /\ es[i].data = input[2][es[i].name]
      /\ \A i, j \in 1..l : es[i].name = es[j].name => i = j
      /\ \A n \in D : \E i \in 1..l : es[i].name = n
  BY <1>1 DEF EntriesOf
<1>3. Packed(es)[2] = es
  BY DEF Packed
<1> HIDE DEF D, l
<1>4. {e.name : e \in Range(es)} = D
  BY <1>1, <1>2 DEF Range
<1>5. \A e \in Range(es) : e.data = input[2][e.name]
  BY <1>1, <1>2 DEF Range
<1>6. Cardinality(D) = l
  <2> DEFINE f == [i \in 1..l |-> es[i].name]
  <2>1. f \in Bijection(1..l, D)
    <3>1. f \in [1..l -> D]
      BY <1>2
    <3>2. \A i, j \in 1..l : f[i] = f[j] => i = j
      BY <1>2
    <3>3. \A n \in D : \E i \in 1..l : f[i] = n
      BY <1>2
    <3> HIDE DEF f
    <3> QED BY <3>1, <3>2, <3>3 DEF Bijection, Injection, Surjection, IsInjective
  <2> HIDE DEF f
  <2>2. ExistsBijection(1..l, D)
    BY <2>1 DEF ExistsBijection
  <2> QED BY <1>1, <2>2, FS_CountingElements
<1> QED BY <1>3, <1>4, <1>5, <1>6 DEF Holds, D, l

LEMMA PackDirectoryKeeps == ASSUME CliInv, PackDirectory PROVE CliInv'
<1> DEFINE input == NodeAt(cmd.path)
           left  == DOMAIN Under(cmd.path) \ PackedNames
<1>0. /\ Shapes /\ Compressing /\ cmd.pc = "pack" /\ cmd.name = "compress"
      /\ UNCHANGED <<src, archive, undo, made, edits>>
  BY StageOf DEF CliInv, PackDirectory, At, files, ghosts, bounds
<1>1. CASE ~IsDirectory(input)
  <2>1. Exit(Fail)
    BY <1>1 DEF PackDirectory
  <2> QED BY <1>0, <2>1, CompressFails
<1>2. CASE IsDirectory(input)
  <2>0. Under(cmd.path) = input[2]
    BY <1>2 DEF Under
  <2>00. /\ cmd.path \in Paths
         /\ cmd.edits = edits =>
              /\ cmd.isdir = IsDirectory(input)
              /\ \E es : cmd.buf = Packed(es) /\ EntriesOf(es, input[2])
    BY <1>0 DEF Compressing
  <2>1. CASE left = {} /\ cmd' = [cmd EXCEPT !.pc = "code"] /\ UNCHANGED result
    <3>1. /\ DOMAIN cmd' = CommandFields /\ cmd'.name = "compress" /\ cmd'.pc = "code"
          /\ cmd'.at = cmd.at /\ cmd'.list = cmd.list /\ cmd'.edits = cmd.edits
          /\ cmd'.path = cmd.path /\ cmd'.flags = cmd.flags /\ cmd'.isdir = cmd.isdir
          /\ cmd'.buf = cmd.buf
      BY <1>0, <2>1 DEF CommandFields, Shapes
    <3>2. NodeAt(cmd.path)' = input
      BY <1>0, <3>1 DEF NodeAt
    <3>3. ASSUME cmd.edits = edits PROVE Compressing'
      <4>1. PICK es : cmd.buf = Packed(es) /\ EntriesOf(es, input[2])
        BY <2>00, <3>3
      <4>2. cmd.buf[2] = es /\ cmd.buf[1] = "packed"
        BY <4>1 DEF Packed
      <4>3. PackedNames = {es[i].name : i \in DOMAIN es}
        BY <4>2 DEF PackedNames
      <4>4. DOMAIN input[2] \subseteq {es[i].name : i \in DOMAIN es}
        BY <2>0, <2>1, <4>3
      <4>5. Holds(cmd.buf, input)
        BY <1>2, <4>1, <4>4, AllEntriesHold
      <4> HIDE DEF input
      <4>6. Holds(cmd'.buf, input)
        BY <3>1, <4>5
      <4>7. Holds(cmd.buf, NodeAt(cmd.path))' /\ IsDirectory(NodeAt(cmd.path))'
        BY <1>2, <3>2, <4>6 DEF Holds, IsDirectory
      <4> QED BY <1>2, <2>00, <3>1, <3>2, <3>3, <4>2, <4>7 DEF Compressing, IsDirectory
    <3> QED BY <1>0, <2>1, <3>1, <3>3, CompressMoves
  <2>2. CASE /\ \E n \in left :
                  cmd' = [cmd EXCEPT !.buf = Packed(Append(@[2],
                            [name |-> n, data |-> Under(cmd.path)[n]]))]
             /\ UNCHANGED result
    <3>1. PICK n \in left :
            cmd' = [cmd EXCEPT !.buf = Packed(Append(@[2],
                      [name |-> n, data |-> Under(cmd.path)[n]]))]
      BY <2>2
    <3> DEFINE e == [name |-> n, data |-> Under(cmd.path)[n]]
    <3>2. /\ DOMAIN cmd' = CommandFields /\ cmd'.name = "compress" /\ cmd'.pc = "pack"
          /\ cmd'.at = cmd.at /\ cmd'.list = cmd.list /\ cmd'.edits = cmd.edits
          /\ cmd'.path = cmd.path /\ cmd'.flags = cmd.flags /\ cmd'.isdir = cmd.isdir
          /\ cmd'.buf = Packed(Append(cmd.buf[2], e))
      BY <1>0, <3>1 DEF CommandFields, Shapes
    <3>3. NodeAt(cmd.path)' = input
      BY <1>0, <3>2 DEF NodeAt
    <3>4. e.name = n /\ e.data = input[2][n]
      BY <2>0
    <3>5. n \in DOMAIN input[2] /\ n \notin PackedNames
      BY <2>0
    <3> HIDE DEF e, left
    <3>6. ASSUME cmd.edits = edits PROVE Compressing'
      <4>1. PICK es : cmd.buf = Packed(es) /\ EntriesOf(es, input[2])
        BY <2>00, <3>6
      <4>2. cmd.buf[2] = es
        BY <4>1 DEF Packed
      <4>3. \A i \in DOMAIN es : es[i].name # n
        BY <3>5, <4>2 DEF PackedNames
      <4> DEFINE t == Append(es, e)  l == Len(es)
      <4>4. /\ IsSequence(t) /\ l \in Nat /\ DOMAIN es = 1..l /\ DOMAIN t = 1..l + 1
            /\ \A i \in 1..l : t[i] = es[i]
            /\ t[l + 1] = e
        BY <4>1, AppendIs DEF EntriesOf
      <4> HIDE DEF t, l
      <4>5. \A i \in 1..l + 1 : i \in 1..l \/ i = l + 1
        BY <4>4
      <4>6. \A i \in DOMAIN t : t[i].name \in DOMAIN input[2] /\ t[i].data = input[2][t[i].name]
        BY <3>4, <3>5, <4>1, <4>4, <4>5 DEF EntriesOf
      <4>7. \A i, j \in DOMAIN t : t[i].name = t[j].name => i = j
        BY <3>4, <4>1, <4>3, <4>4, <4>5 DEF EntriesOf
      <4>8. EntriesOf(t, input[2])
        BY <4>4, <4>6, <4>7 DEF EntriesOf
      <4>9. cmd'.buf = Packed(t)
        BY <3>2, <4>2 DEF t
      <4> HIDE DEF input
      <4> QED BY <1>2, <2>00, <3>2, <3>3, <3>6, <4>8, <4>9 DEF Compressing, IsDirectory
    <3> QED BY <1>0, <2>2, <3>2, <3>6, CompressMoves
  <2> QED BY <1>2, <2>1, <2>2 DEF PackDirectory
<1> QED BY <1>1, <1>2

LEMMA CodeKeeps == ASSUME CliInv, Code PROVE CliInv'
<1> DEFINE input == NodeAt(cmd.path)
           c == "compress" \in cmd.flags
           d == "decompress" \in cmd.flags
<1>0. /\ Shapes /\ Compressing /\ cmd.pc = "code" /\ cmd.name = "compress"
      /\ UNCHANGED <<src, archive, undo, made, edits>>
  BY StageOf DEF CliInv, Code, At, files, ghosts, bounds
<1>1. CASE Exit(Fail)
  BY <1>0, <1>1, CompressFails
<1>2. CASE c \/ (d /\ IsFrame(cmd.buf))
  <2>1. /\ cmd' = [cmd EXCEPT !.pc = "write",
                              !.buf = IF c THEN Compress(@) ELSE Decompress(@)]
        /\ UNCHANGED result
    BY <1>2 DEF Code
  <2>2. /\ DOMAIN cmd' = CommandFields /\ cmd'.name = "compress" /\ cmd'.pc = "write"
        /\ cmd'.at = cmd.at /\ cmd'.list = cmd.list /\ cmd'.edits = cmd.edits
        /\ cmd'.path = cmd.path /\ cmd'.flags = cmd.flags /\ cmd'.isdir = cmd.isdir
        /\ cmd'.buf = IF c THEN Compress(cmd.buf) ELSE Decompress(cmd.buf)
    BY <1>0, <2>1 DEF CommandFields, Shapes
  <2>3. NodeAt(cmd.path)' = input
    BY <1>0, <2>2 DEF NodeAt
  <2>4. /\ cmd.path \in Paths
        /\ cmd.edits = edits => /\ cmd.isdir = IsDirectory(input)
                                /\ Holds(cmd.buf, input)
                                /\ IsDirectory(input) => cmd.buf[1] = "packed"
    BY <1>0 DEF Compressing
  <2> HIDE DEF input
  <2>5. ASSUME cmd.edits = edits PROVE Compressing'
    <3>1. CASE c
      <4>1. cmd'.buf = Frame(cmd.buf)
        BY <2>2, <3>1 DEF Compress
      <4>2. \E x : cmd'.buf = Frame(x) /\ Holds(x, input)
        BY <2>4, <2>5, <4>1
      <4>3. (\E x : cmd.buf = Frame(x) /\ Holds(x, NodeAt(cmd.path)))'
        BY <2>3, <4>2 DEF Holds, IsDirectory
      <4> QED BY <2>2, <2>3, <2>4, <2>5, <3>1, <4>3 DEF Compressing, IsDirectory
    <3>2. CASE ~c
      <4>1. d /\ cmd.buf[1] = "frame" /\ cmd'.buf = Decompress(cmd.buf)
        BY <1>2, <2>2, <3>2 DEF IsFrame
      <4>2. ~IsDirectory(input) /\ cmd.buf = input
        BY <2>4, <2>5, <4>1 DEF Holds
      <4> QED BY <2>2, <2>3, <2>4, <2>5, <3>2, <4>1, <4>2 DEF Compressing, IsDirectory, Decompress
    <3> QED BY <3>1, <3>2
  <2> QED BY <1>0, <2>1, <2>2, <2>5, CompressMoves
<1> QED BY <1>1, <1>2 DEF Code

\* The output is beside the input.
LEMMA OutputIs ==
    ASSUME cmd.path \in Paths
    PROVE  OutputPath \in Paths /\ OutputPath # cmd.path
<1> DEFINE E == Sources \cup {".zst", "_extracted", ".out"}
           x == IF "compress" \in cmd.flags THEN ".zst"
                ELSE IF cmd.isdir THEN "_extracted" ELSE ".out"
<1>1. x \in E /\ OutputPath = Append(cmd.path, x)
  BY DEF OutputPath
<1> HIDE DEF E, x
<1>2. cmd.path \in Seq(E) /\ Paths = Seq(E)
  BY DEF Paths, E
<1>3. Append(cmd.path, x) \in Seq(E) /\ Len(Append(cmd.path, x)) = Len(cmd.path) + 1
  BY <1>1, <1>2, AppendProperties
<1>4. Len(cmd.path) \in Nat
  BY <1>2, LenProperties
<1> QED BY <1>1, <1>2, <1>3, <1>4

LEMMA WriteOutputKeeps == ASSUME CliInv, WriteOutput PROVE CliInv'
<1> DEFINE input == NodeAt(cmd.path)  p == cmd.path  o == OutputPath
           c == "compress" \in cmd.flags
           d == "decompress" \in cmd.flags
<1>0. /\ Shapes /\ Compressing /\ cmd.pc = "write" /\ cmd.name = "compress"
      /\ UNCHANGED <<src, archive, undo, edits>>
  BY DEF CliInv, WriteOutput, At, ghosts
<1>1. p \in Paths /\ o \in Paths /\ o # p
  BY <1>0, OutputIs DEF Compressing
<1>2. ASSUME cmd.edits = edits
      PROVE  /\ cmd.isdir = IsDirectory(input)
             /\ IF c THEN \E x : cmd.buf = Frame(x) /\ Holds(x, input)
                ELSE d /\ ~IsDirectory(input) /\ cmd.buf = Decompress(input)
  BY <1>0, <1>2 DEF Compressing
<1>3. CASE d /\ cmd.isdir
  <2>1. Exit(Done) /\ (made' = made \/ \E x : made' = Put(made, o, x))
    BY <1>3, Zenon DEF WriteOutput
  <2>2. DOMAIN made' \subseteq Paths
    BY <1>0, <1>1, <2>1 DEF Shapes, Put
  <2>3. result'.flags = cmd.flags /\ result'.quiet = (cmd.edits = edits)
    BY <1>0, <2>1, Exited, Constants
  <2>4. CompressKeepsInput'
    <3>1. result'.quiet /\ result'.flags = {"decompress"} => FALSE
      <4> SUFFICES ASSUME result'.quiet, result'.flags = {"decompress"} PROVE FALSE
        OBVIOUS
      <4>1. cmd.edits = edits
        BY <2>3, Zenon
      <4>2. cmd.flags = {"decompress"}
        BY <2>3
      <4>3. ~c
        BY <4>2
      <4> HIDE DEF input
      <4>4. cmd.isdir = IsDirectory(input) /\ ~IsDirectory(input)
        BY <1>2, <4>1, <4>3
      <4> QED BY <1>3, <4>4, Zenon
    <3>2. result'.flags # {"compress"}
      BY <1>3, <2>3
    <3> QED BY <3>1, <3>2 DEF CompressKeepsInput
  <2> QED BY <1>0, <2>1, <2>2, <2>4, QuietExit, Constants
<1>4. CASE ~(d /\ cmd.isdir) /\ IsDirectory(NodeAt(o))
  <2>1. Exit(Fail) /\ UNCHANGED made
    BY <1>4 DEF WriteOutput
  <2> QED BY <1>0, <2>1, CompressFails
<1>5. CASE ~(d /\ cmd.isdir) /\ ~IsDirectory(NodeAt(o))
  <2>1. Written(made, o, "path", cmd.buf) /\ Exit(Done)
    BY <1>5 DEF WriteOutput
  <2> HIDE DEF p, o, input
  <2>2. /\ DOMAIN made' = DOMAIN made \cup {o}
        /\ \A q \in DOMAIN made : q # o => made'[q] = made[q]
        /\ <<"path", o>> \in cut' \/ made'[o] = cmd.buf
    BY <2>1 DEF Written, Put
  <2>3. DOMAIN made' \subseteq Paths
    BY <1>0, <1>1, <2>2 DEF Shapes
  <2>4. /\ result'.flags = cmd.flags /\ result'.path = p
        /\ result'.quiet = (cmd.edits = edits)
    BY <1>0, <2>1, Exited, Constants DEF p
  <2>5. NodeAt(result.path)' = input
    <3>2. NodeAt(result.path)' = IF Len(p) = 1 THEN src[p[1]]
                                  ELSE IF p \in DOMAIN made' THEN made'[p] ELSE Missing
      BY <1>0, <2>4 DEF NodeAt
    <3> QED BY <1>1, <2>2, <2>4, <3>2 DEF NodeAt, input, p
  <2>6. CompressKeepsInput'
    <3> SUFFICES ASSUME result'.quiet
                 PROVE  /\ result'.flags = {"compress"} /\ <<"path", Append(p, ".zst")>> \notin cut' =>
                             Holds(Decompress(made'[Append(p, ".zst")]), input)
                        /\ result'.flags = {"decompress"} =>
                             /\ ~IsDirectory(input)
                             /\ \/ <<"path", Append(p, ".out")>> \in cut'
                                \/ made'[Append(p, ".out")] = Decompress(input)
      BY <2>4, <2>5 DEF CompressKeepsInput, Holds, IsDirectory, Decompress
    <3>1. cmd.edits = edits
      BY <2>4
    <3>2. CASE cmd.flags = {"compress"}
      <4>1. o = Append(p, ".zst")
        BY <3>2 DEF OutputPath, o, p
      <4>2. PICK x : cmd.buf = Frame(x) /\ Holds(x, input)
        BY <1>2, <3>1, <3>2
      <4>3. Decompress(Frame(x)) = x
        BY DEF Decompress, Frame
      <4> QED BY <2>2, <2>4, <3>2, <4>1, <4>2, <4>3
    <3>3. CASE cmd.flags = {"decompress"}
      <4>1. ~IsDirectory(input) /\ cmd.buf = Decompress(input) /\ ~cmd.isdir
        BY <1>2, <3>1, <3>3
      <4>2. o = Append(p, ".out")
        BY <3>3, <4>1 DEF OutputPath, o, p
      <4> QED BY <2>2, <2>4, <3>3, <4>1, <4>2
    <3> QED BY <2>4, <3>2, <3>3
  <2> QED BY <1>0, <2>1, <2>3, <2>6, QuietExit, Constants
<1> QED BY <1>3, <1>4, <1>5

LEMMA EditKeeps == ASSUME CliInv, NEW s, NEW x, Edit(s, x) PROVE CliInv'
<1>0. /\ edits' = edits + 1 /\ result' = [result EXCEPT !.quiet = FALSE]
      /\ UNCHANGED <<archive, extracted, made, cmd, before, stored, undo, cut>>
  BY DEF Edit, ghosts
<1>1. /\ Shapes /\ Undone /\ Creating /\ CreateStoresPrefix /\ Extracting
      /\ ExtractWritesArchive /\ Compressing
  BY DEF CliInv
<1>2. /\ DOMAIN result' = ResultFields /\ result'.quiet = FALSE /\ result'.name = result.name
      /\ result'.code = result.code /\ result'.list = result.list /\ result'.pc = result.pc
      /\ result'.at = result.at /\ result'.fault = result.fault
  BY <1>0, <1>1 DEF Shapes, ResultFields
<1>3. edits \in Nat /\ cmd.edits \in Nat /\ cmd.edits <= edits
  BY <1>1 DEF Shapes
<1>4. edits' \in Nat /\ cmd.edits <= edits' /\ cmd.edits # edits'
  BY <1>0, <1>3
<1>5. Shapes'
  BY <1>0, <1>1, <1>2, <1>4 DEF Shapes
<1>6. SoftDeleted(archive)' = SoftDeleted(archive) /\ Live(archive)' = Live(archive)
      /\ FilesOf(stored)' = FilesOf(stored)
  BY <1>0 DEF SoftDeleted, Live, FilesOf, Latest
<1>7. Undone'
  BY <1>0, <1>1, <1>6 DEF Undone
<1>8. Creating' /\ Extracting'
  BY <1>0, <1>1, <1>6 DEF Creating, Extracting
<1>9. CreateStoresPrefix'
  BY <1>0, <1>1, <1>2, <1>6 DEF CreateStoresPrefix, Ended
<1>10. ExtractWritesArchive'
  BY <1>0, <1>1, <1>2, <1>6 DEF ExtractWritesArchive, Ended
<1>11. Compressing'
  BY <1>0, <1>1, <1>4 DEF Compressing
<1>12. CompressKeepsInput'
  BY <1>2 DEF CompressKeepsInput
<1> QED BY <1>5, <1>7, <1>8, <1>9, <1>10, <1>11, <1>12 DEF CliInv

LEMMA CallFailsKeeps == ASSUME CliInv, CallFails PROVE CliInv'
<1>0. /\ Shapes /\ Exit(FaultFound)
      /\ UNCHANGED <<archive, undo, made, edits, extracted, cut, before, stored>>
  BY DEF CliInv, CallFails, files, ghosts
<1>1. CASE cmd.pc = "extract"
  <2>1. cmd.at <= Len(cmd.list)
    BY <1>1 DEF CallFails, At
  <2> QED BY <1>0, <1>1, <2>1, ExtractStops, Constants
<1>2. CASE cmd.pc # "extract" /\ cmd.name = "create"
  <2>1. cmd.pc \in {"options", "init"}
    BY <1>0, <1>2, StagesAre DEF CallFails, Shapes
  <2>2. CreateStoresPrefix'
    BY <1>0, <1>2, <2>1, CreateSpared
  <2>3. DOMAIN made' \subseteq Paths
    BY <1>0 DEF Shapes
  <2> QED BY <1>0, <1>2, <2>2, <2>3, QuietExit, Constants
<1>3. CASE cmd.name = "compress"
  BY <1>0, <1>3, CompressFails
<1>4. CASE cmd.pc # "extract" /\ cmd.name \notin {"create", "compress"}
  BY <1>0, <1>4, PlainExit, Constants
<1> QED BY <1>1, <1>2, <1>3, <1>4

LEMMA KillKeeps == ASSUME CliInv, Kill PROVE CliInv'
<1> DEFINE r == [Fail EXCEPT !.code = 137]
<1>1. DOMAIN r = ResultFields /\ r.code = 137
  BY Constants DEF ResultFields
<1>2. Exit(r) /\ UNCHANGED <<archive, undo, made, edits>>
  BY DEF Kill, files, ghosts
<1> HIDE DEF r
<1>3. result'.code = 137
  BY <1>1, <1>2, Exited DEF CliInv
<1>4. CreateStoresPrefix' /\ ExtractWritesArchive' /\ CompressKeepsInput'
  BY <1>3 DEF CreateStoresPrefix, ExtractWritesArchive, CompressKeepsInput
<1>5. DOMAIN made' \subseteq Paths
  BY <1>2 DEF CliInv, Shapes
<1> QED BY <1>1, <1>2, <1>4, <1>5, QuietExit

LEMMA StutterKeeps == ASSUME CliInv, UNCHANGED vars PROVE CliInv'
<1>0. UNCHANGED <<src, archive, extracted, made, cmd, result, before, stored, undo, cut, edits>>
  BY DEF vars
<1>1. /\ SoftDeleted(archive)' = SoftDeleted(archive) /\ Live(archive)' = Live(archive)
      /\ FilesOf(stored)' = FilesOf(stored)
      /\ NodeAt(cmd.path)' = NodeAt(cmd.path) /\ NodeAt(result.path)' = NodeAt(result.path)
  BY <1>0 DEF SoftDeleted, Live, FilesOf, Latest, NodeAt
<1>2. Shapes' /\ Undone'
  BY <1>0, <1>1 DEF CliInv, Shapes, Undone
<1>3. Creating' /\ Extracting'
  BY <1>0, <1>1 DEF CliInv, Creating, Extracting
<1>4. CreateStoresPrefix' /\ ExtractWritesArchive'
  BY <1>0, <1>1 DEF CliInv, CreateStoresPrefix, ExtractWritesArchive, Ended
<1>5. Compressing'
  BY <1>0, <1>1 DEF CliInv, Compressing, Holds, IsDirectory, Decompress
<1>6. CompressKeepsInput'
  BY <1>0, <1>1 DEF CliInv, CompressKeepsInput, Ended, Holds, IsDirectory, Decompress
<1> QED BY <1>2, <1>3, <1>4, <1>5, <1>6 DEF CliInv

LEMMA NextKeeps == ASSUME CliInv, [Next]_vars PROVE CliInv'
<1>1. CASE Begin
  BY <1>1, BeginKeeps
<1>2. CASE Step
  <2>1. CASE CheckOptions
    BY <2>1, CheckOptionsKeeps
  <2>2. CASE InitArchive
    BY <2>2, InitArchiveKeeps
  <2>3. CASE CreateNext
    BY <2>3, CreateNextKeeps
  <2>4. CASE CreateDone
    BY <2>4, CreateDoneKeeps
  <2>5. CASE OpenArchive
    BY <2>5, OpenArchiveKeeps
  <2>6. CASE Add
    BY <2>6, AddKeeps
  <2>7. CASE Delete
    BY <2>7, DeleteKeeps
  <2>8. CASE ExtractNext
    BY <2>8, ExtractNextKeeps
  <2>9. CASE ExtractDone
    BY <2>9, ExtractDoneKeeps
  <2>10. CASE Recover
    BY <2>10, RecoverKeeps
  <2>11. CASE WriteRecovered
    BY <2>11, WriteRecoveredKeeps
  <2>12. CASE List \/ Info
    BY <2>12, ListKeeps
  <2>13. CASE CheckInput
    BY <2>13, CheckInputKeeps
  <2>14. CASE Load
    BY <2>14, LoadKeeps
  <2>15. CASE PackDirectory
    BY <2>15, PackDirectoryKeeps
  <2>16. CASE Code
    BY <2>16, CodeKeeps
  <2>17. CASE WriteOutput
    BY <2>17, WriteOutputKeeps
  <2> QED BY <1>2, <2>1, <2>2, <2>3, <2>4, <2>5, <2>6, <2>7, <2>8, <2>9, <2>10, <2>11,
             <2>12, <2>13, <2>14, <2>15, <2>16, <2>17, Zenon DEF Step
<1>3. ASSUME NEW s, NEW x, Edit(s, x) PROVE CliInv'
  BY <1>3, EditKeeps
<1>4. CASE Kill
  BY <1>4, KillKeeps
<1>5. CASE UNCHANGED vars
  BY <1>5, StutterKeeps
<1>6. CASE CallFails
  BY <1>6, CallFailsKeeps
<1> QED BY <1>1, <1>2, <1>3, <1>4, <1>5, <1>6, Zenon DEF Next

-----------------------------------------------------------------------------
(* The theorems.                                                            *)

\* In every run of commands the invariant holds: what the archive, the
\* running command and the last result say of one another (src/cli).
THEOREM CliHolds == Spec => []CliInv
<1>1. CliInv /\ [Next]_vars => CliInv'
  BY NextKeeps
<1> QED BY <1>1, InitHolds, PTL DEF Spec

\* create leaves an archive that opens, with all of its sources or those
\* before the one it reports, unless it reports a call of the file system that
\* failed (create.cc's loop over the sources).
THEOREM CreateStores == Spec => []CreateStoresPrefix
<1>1. CliInv => CreateStoresPrefix
  BY DEF CliInv
<1> QED BY <1>1, CliHolds, PTL

\* At most the file of the last soft delete can be recovered, with the
\* content that it had (delete.cc).
THEOREM OneCanBeRecovered == Spec => []OneRecoverable
<1>1. CliInv => OneRecoverable
  <2> SUFFICES ASSUME CliInv PROVE OneRecoverable
    OBVIOUS
  <2>1. PICK n : DOMAIN undo \subseteq {n}
    BY DEF CliInv, Undone
  <2>2. IsFiniteSet({n}) /\ Cardinality({n}) = 1
    BY FS_Singleton
  <2>3. Cardinality(DOMAIN undo) <= 1
    BY <2>1, <2>2, FS_Subset
  <2> QED BY <2>3 DEF CliInv, Undone, OneRecoverable
<1> QED BY <1>1, CliHolds, PTL

\* extract has written what the archive holds, of every path or of those
\* before the one it reports, which is no live file or cannot be written
\* (extract.cc's loop over the paths).
THEOREM ExtractWrites == Spec => []ExtractWritesArchive
<1>1. CliInv => ExtractWritesArchive
  BY DEF CliInv
<1> QED BY <1>1, CliHolds, PTL

\* compress has written its input, a file or a whole directory, when nobody
\* changed it meanwhile and the disk was not full (compress.cc).
THEOREM CompressKeeps == Spec => []CompressKeepsInput
<1>1. CliInv => CompressKeepsInput
  BY DEF CliInv
<1> QED BY <1>1, CliHolds, PTL
=============================================================================
