-------------------------------- MODULE Cli --------------------------------
(***************************************************************************)
(* The command line tool (src/cli): a user runs one command after another  *)
(* on one archive and on the files around it.  A command is the sequence   *)
(* of its calls; the user may change the source files between any two of   *)
(* them, the file system may refuse a call or be full, and the process may *)
(* be killed.  A call of Archive is one step here: what happens inside it  *)
(* is the subject of ArchiveSession, InPlaceArchive and RewriteArchive.    *)
(* A source that was opened is read without error.                         *)
(***************************************************************************)
EXTENDS Integers, Sequences, FiniteSets, SequencesExt

CONSTANTS
    Sources,        \* paths of the user's files
    Basename,       \* their file names, numbers above 0; archives list them in order
    Datas,          \* contents of files
    Initially,      \* what the user's files hold at first
    Ciphers,        \* arguments of --encrypt, "" when it is left out
    Codecs,         \* arguments of --compression
    KeyArgs,        \* values of --key and --key-file, see ResolveKey
    KeyBytes,       \* size of a key the ciphers take
    Overrides,      \* values of --archive-path, 0 when it is left out
    Matching,       \* names that values of --prefix match, {} when it is left out
    Lists,          \* argument lists of create
    Trees,          \* contents of directories: name -> content
    MaxCommands,    \* bound: commands run
    MaxEdits,       \* bound: changes of the user's files
    MaxFaults       \* bound: calls of the file system that fail, and kills

Names == {Basename[s] : s \in Sources}

ASSUME CliAssumption ==
    /\ Names \subseteq Nat \ {0} /\ IsFiniteSet(Names)
    /\ Lists \subseteq Seq(Sources) /\ Initially \in [Sources -> Datas]
    /\ {KeyBytes, MaxCommands, MaxEdits, MaxFaults} \subseteq Nat

VARIABLES
    src,        \* the user's files: raw data, a directory, or missing
    archive,    \* the archive file
    stray,      \* a temporary file of a rewrite was left behind
    extracted,  \* files written by extract and recover, by name
    made,       \* files and directories written by compress, by path
    cmd,        \* the command that runs, and how far it is
    result,     \* how the last command ended
    before,     \* ghost: the archive when a create started
    stored,     \* ghost: what a create has stored, in order
    undo,       \* ghost: what was soft deleted by the last change
    cut,        \* ghost: what a full disk cut off, <<"name", n>> or <<"path", p>>
    commands, edits, faults

vars == <<src, archive, stray, extracted, made, cmd, result, before, stored, undo, cut,
          commands, edits, faults>>

-----------------------------------------------------------------------------
(* Contents, as tagged pairs, and archives.                                 *)

Raw(d)       == <<"raw", d>>
Frame(x)     == <<"frame", x>>       \* a zstd frame
Packed(es)   == <<"packed", es>>     \* entries, as PackDirectory writes them
Directory(f) == <<"dir", f>>         \* names and contents of its files
Missing      == <<"missing", 0>>
Torn         == <<"torn", 0>>        \* what a full disk took of a file
IsDirectory(x) == x[1] = "dir"
IsFrame(x)     == x[1] = "frame"

Empty == [n \in {} |-> 0]
Put(map, k, v)  == [j \in DOMAIN map \union {k} |-> IF j = k THEN v ELSE map[j]]
Drop(map, k)    == [j \in DOMAIN map \ {k} |-> map[j]]

NoKey    == <<>>
NoArchive == [state |-> "absent", cipher |-> "none", key |-> NoKey, files |-> Empty]
Live(a)        == {n \in DOMAIN a.files : ~a.files[n].deleted}
SoftDeleted(a) == {n \in DOMAIN a.files : a.files[n].deleted}
File(x) == [data |-> x, deleted |-> FALSE]
\* Mutant: a rewrite copies the deleted files as well.
AllFiles(a) == a.files
OnlyLive(a) == [n \in Live(a) |-> a.files[n]]

-----------------------------------------------------------------------------
(* Keys.  A KeyArgs value is [hex |-> digits, file |-> what --key-file      *)
(* names]: digits are numbers, 16 for a character that is no hex digit;     *)
(* file is <<>> when not given, <<k>> for a file that holds k, and          *)
(* <<k, k>> for one that cannot be opened.                                  *)

\* from_chars stops at the first character that is no digit: only the first
\* of two is checked.
HexValid(hex) ==
    Len(hex) % 2 = 0 /\ \A i \in DOMAIN hex : i % 2 = 1 => hex[i] # 16
ParseHexKey(hex) ==
    [i \in 1..(Len(hex) \div 2) |-> IF hex[2*i] = 16 THEN hex[2*i - 1]
                                    ELSE 16 * hex[2*i - 1] + hex[2*i]]

Readable(file) == Len(file) = 1

KeyResolves(given, required) ==
    /\ ~(given.hex # <<>> /\ given.file # <<>>)
    /\ given.hex # <<>> => HexValid(given.hex)
    /\ given.file # <<>> => Readable(given.file)
    /\ required => given.hex # <<>> \/ given.file # <<>>
ResolveKey(given) ==
    IF given.hex # <<>> THEN ParseHexKey(given.hex)
    ELSE IF given.file # <<>> THEN given.file[1] ELSE NoKey

ParseEncryptionAlgorithm(arg) ==
    CASE arg = "aes-gcm" -> "gcm" [] arg = "aes-ctr" -> "ctr" [] OTHER -> "invalid"
CipherOf(arg) == IF arg = "" THEN "none" ELSE ParseEncryptionAlgorithm(arg)
ParseCompressionType(arg) ==
    CASE arg = "none" -> "UNCOMPRESSED" [] arg = "zstd" -> "ZSTD" [] OTHER -> "invalid"

-----------------------------------------------------------------------------
(* Commands: started by the user, ended by Exit.                            *)

NotGiven == [hex |-> <<>>, file |-> <<>>]
NoCommand == [name |-> "none", pc |-> "idle", list |-> <<>>, at |-> 1, as |-> 0,
              soft |-> FALSE, cipher |-> "", codec |-> "", given |-> NotGiven, key |-> NoKey,
              flags |-> {}, prefix |-> {}, path |-> <<>>, isdir |-> FALSE, buf |-> Missing,
              edits |-> 0]
NoResult == [name |-> "none", code |-> 0, list |-> <<>>, names |-> {}, active |-> 0,
             path |-> <<>>, flags |-> {}, pc |-> "idle", at |-> 1, fault |-> FALSE, quiet |-> TRUE]

Init ==
    /\ src = [s \in Sources |-> Raw(Initially[s])]
    /\ archive = NoArchive
    /\ stray = FALSE
    /\ extracted = Empty
    /\ made = Empty
    /\ cmd = NoCommand
    /\ result = NoResult
    /\ before = NoArchive
    /\ stored = <<>>
    /\ undo = Empty
    /\ cut = {}
    /\ commands = 0 /\ edits = 0 /\ faults = 0

files   == <<src, extracted, made, cut>>
ghosts  == <<before, stored, undo>>
bounds  == <<commands, edits, faults>>

\* BOUND: compress, which shares only the sources with the other commands, is
\* not run on a disk with an archive, nor they on one with its output.
Start(c) ==
    /\ cmd = NoCommand /\ commands < MaxCommands
    /\ IF c.name = "compress" THEN archive = NoArchive ELSE made = Empty
    /\ cmd' = [c EXCEPT !.pc = "options", !.edits = edits]
    /\ result' = NoResult
    /\ before' = IF c.name = "create" THEN archive ELSE NoArchive
    /\ stored' = <<>>
    /\ commands' = commands + 1
    /\ UNCHANGED <<files, archive, stray, undo, edits, faults>>

At(pc) == cmd.pc = pc
Goto(pc) == cmd' = [cmd EXCEPT !.pc = pc] /\ UNCHANGED result
\* The command ends and reports r, an exception with code 1; quiet while the
\* user has edited nothing since it started.
Exit(r) ==
    /\ cmd' = NoCommand
    /\ result' = [r EXCEPT !.name = cmd.name, !.list = cmd.list, !.path = cmd.path,
                           !.flags = cmd.flags, !.pc = cmd.pc, !.at = cmd.at,
                           !.quiet = cmd.edits = edits]
Done == [NoResult EXCEPT !.code = 0]
Fail == [NoResult EXCEPT !.code = 1]
\* The command reports a call of the file system that failed.
FaultFound == [Fail EXCEPT !.fault = TRUE]
Fault == faults < MaxFaults /\ faults' = faults + 1

\* What every callback checks before it touches a file; without --encrypt
\* create does not look at the key options.
OptionsFit ==
    CASE cmd.name = "create" ->
           /\ ParseCompressionType(cmd.codec) # "invalid"
           /\ CipherOf(cmd.cipher) # "invalid"
           /\ cmd.cipher # "" => KeyResolves(cmd.given, TRUE)
           /\ ~(cmd.as # 0 /\ Len(cmd.list) > 1)
      [] cmd.name = "add" ->
           /\ src[cmd.list[1]] # Missing
           /\ KeyResolves(cmd.given, FALSE)
           /\ ParseCompressionType(cmd.codec) # "invalid"
      [] OTHER -> KeyResolves(cmd.given, FALSE)

CheckOptions ==
    /\ At("options") /\ cmd.name # "compress"
    /\ IF OptionsFit
       THEN /\ cmd' = [cmd EXCEPT !.pc  = IF cmd.name = "create" THEN "init" ELSE "open",
                                  !.codec = "",
                                  !.key = IF cmd.name = "create" /\ cmd.cipher = ""
                                          THEN NoKey ELSE ResolveKey(cmd.given),
                                  !.given = NotGiven]
            /\ UNCHANGED result
       ELSE Exit(Fail)
    /\ UNCHANGED <<files, archive, stray, ghosts, bounds>>

\* The in-archive name of a source.
NameOf(s) == IF cmd.as # 0 THEN cmd.as ELSE Basename[s]

-----------------------------------------------------------------------------
(* create                                                                   *)

\* Archive::Create: a key of the wrong size is noticed before the file is
\* emptied; the header may be more than the disk takes.
InitArchive ==
    /\ At("init")
    /\ IF cmd.cipher # "" /\ Len(cmd.key) # KeyBytes
       THEN Exit(Fail) /\ UNCHANGED <<archive, undo, faults>>
       ELSE /\ archive' = [NoArchive EXCEPT !.state = "unfinished", !.cipher = CipherOf(cmd.cipher),
                                            !.key = cmd.key]
            /\ undo' = Empty
            /\ \/ Goto("files") /\ UNCHANGED faults
               \/ Exit(FaultFound) /\ Fault
    /\ UNCHANGED <<files, stray, before, stored, commands, edits>>

\* Mutant: the destructor of Archive writes no catalog.
LeftUnfinished(a) == a
Finalised(a) == [a EXCEPT !.state = "whole"]

\* The destructor of Archive, or Close, appends the catalog and the footer; it
\* does not when a write fails, and where one failed before, its footer may not
\* be the end of the file.
FinalisedOrNot == {archive, Finalised(archive)}

\* The next source; when it cannot be read or stored the destructor of Archive
\* completes the archive with what it holds.
CreateNext ==
    LET s == cmd.list[cmd.at] IN
    /\ At("files") /\ cmd.at <= Len(cmd.list)
    /\ \/ /\ src[s] = Missing \/ IsDirectory(src[s])
          /\ archive' = Finalised(archive)
          /\ Exit(Fail) /\ UNCHANGED <<stored, faults>>
       \/ /\ src[s] # Missing /\ ~IsDirectory(src[s])
          /\ archive' = [archive EXCEPT !.files = Put(@, NameOf(s), File(src[s]))]
          /\ stored' = Append(stored, [name |-> NameOf(s), data |-> src[s]])
          /\ cmd' = [cmd EXCEPT !.at = @ + 1]
          /\ UNCHANGED <<result, faults>>
       \/ /\ archive' \in FinalisedOrNot
          /\ Exit(FaultFound) /\ Fault /\ UNCHANGED stored
    /\ UNCHANGED <<files, stray, before, undo, commands, edits>>

\* Close, whose last step is a flush: it may fail with all written.
Completed ==
    /\ \/ archive' = Finalised(archive) /\ Exit([Done EXCEPT !.active = Len(cmd.list)])
          /\ UNCHANGED faults
       \/ archive' \in FinalisedOrNot /\ Exit(FaultFound) /\ Fault
    /\ UNCHANGED <<files, stray, ghosts, commands, edits>>
\* Mutant: the loop over the sources ends one too late.
CreateDoneLate ==
    /\ At("files") /\ cmd.at > Len(cmd.list) + 1
    /\ Completed
CreateDone ==
    /\ At("files") /\ cmd.at > Len(cmd.list)
    /\ Completed

-----------------------------------------------------------------------------
(* The commands that open the archive.                                      *)

Opens(key) ==
    archive.state = "whole" /\ (archive.cipher # "none" => key = archive.key)

\* The live files in order: i - 1 of them come before the i-th.
ListFiles ==
    [i \in 1..Cardinality(Live(archive)) |->
       CHOOSE n \in Live(archive) : Cardinality({m \in Live(archive) : m < n}) = i - 1]

\* Opening; extract without paths takes those that are listed now.
OpenArchive ==
    /\ At("open")
    /\ IF ~Opens(cmd.key) THEN Exit(Fail)
       ELSE IF cmd.name # "extract" \/ cmd.list # <<>> THEN Goto(cmd.name)
       ELSE IF ListFiles = <<>> THEN Exit(Done)
       ELSE cmd' = [cmd EXCEPT !.pc = "extract", !.list = ListFiles] /\ UNCHANGED result
    /\ UNCHANGED <<files, archive, stray, ghosts, bounds>>

\* Archive::Rewrite: the new files replace the old ones, and the temporary
\* file is renamed; the archive may not open again.
Rewritten(new, gone) ==
    /\ archive' = [archive EXCEPT !.files = new]
    /\ undo' = gone
    /\ stray' = FALSE
    /\ \/ Exit(Done) /\ UNCHANGED faults
       \/ Exit(FaultFound) /\ Fault
    /\ UNCHANGED <<files, before, stored, commands, edits>>
\* It returns an error, and removes the temporary file, or lets an exception
\* pass.
NotRewritten(left) ==
    /\ stray' = left
    /\ Exit(Fail)
    /\ UNCHANGED <<files, archive, ghosts, commands, edits>>
\* A call of the file system fails before the rename, or the rename itself,
\* which leaves the temporary file.
RewriteFails == Fault /\ \E left \in BOOLEAN : NotRewritten(left)

\* The source is read again, long after it was seen to exist.
Add ==
    LET s == cmd.list[1] IN
    /\ At("add")
    /\ \/ src[s] = Missing /\ NotRewritten(FALSE) /\ UNCHANGED faults
       \/ IsDirectory(src[s]) /\ NotRewritten(TRUE) /\ UNCHANGED faults
       \/ /\ src[s] # Missing /\ ~IsDirectory(src[s])
          /\ Rewritten(Put(OnlyLive(archive), NameOf(s), File(src[s])), Empty)
       \/ RewriteFails

\* Of the soft-deleted files only the one deleted now stays.
Delete ==
    LET n == cmd.as
        live == OnlyLive(archive)
    IN
    /\ At("delete")
    /\ IF n \notin DOMAIN archive.files
       THEN Exit(Fail) /\ UNCHANGED <<files, archive, stray, ghosts, bounds>>
       ELSE \/ ~cmd.soft /\ Rewritten(Drop(live, n), Empty)
            \/ cmd.soft /\ n \notin DOMAIN live /\ NotRewritten(FALSE) /\ UNCHANGED faults
            \/ /\ cmd.soft /\ n \in DOMAIN live
               /\ Rewritten([live EXCEPT ![n].deleted = TRUE], Put(Empty, n, live[n].data))
            \/ RewriteFails

\* An ofstream reports no error of write or close: a full disk cuts the file
\* off, and the command goes on.
Written(map, k, tag, x) ==
    \/ map' = Put(map, k, x) /\ cut' = cut \ {<<tag, k>>} /\ UNCHANGED faults
    \/ map' = Put(map, k, Torn) /\ cut' = cut \union {<<tag, k>>} /\ Fault

\* Mutant: a path that fails is passed over.
ExtractSkipping ==
    LET n == cmd.list[cmd.at] IN
    /\ At("extract") /\ cmd.at <= Len(cmd.list)
    /\ IF n \notin Live(archive) THEN UNCHANGED <<extracted, cut, faults>>
       ELSE Written(extracted, n, "name", archive.files[n].data)
    /\ cmd' = [cmd EXCEPT !.at = @ + 1]
    /\ UNCHANGED <<result, src, made, archive, stray, ghosts, commands, edits>>

\* ExtractFileToDisk of the next path; the first that fails ends the command.
ExtractNext ==
    LET n == cmd.list[cmd.at] IN
    /\ At("extract") /\ cmd.at <= Len(cmd.list)
    /\ IF n \notin Live(archive)
       THEN Exit(Fail) /\ UNCHANGED <<extracted, cut, faults>>
       ELSE /\ Written(extracted, n, "name", archive.files[n].data)
            /\ cmd' = [cmd EXCEPT !.at = @ + 1]
            /\ UNCHANGED result
    /\ UNCHANGED <<src, made, archive, stray, ghosts, commands, edits>>

ExtractDone ==
    /\ At("extract") /\ cmd.at > Len(cmd.list)
    /\ Exit([Done EXCEPT !.active = Len(cmd.list)])
    /\ UNCHANGED <<files, archive, stray, ghosts, bounds>>

\* RecoverFile, with AES-GCM always in vain (ArchiveSession), then the file
\* is written, with the archive closed.
Recover ==
    /\ At("recover")
    /\ IF cmd.as \notin SoftDeleted(archive) \/ archive.cipher = "gcm" THEN Exit(Fail)
       ELSE /\ cmd' = [cmd EXCEPT !.pc = "write", !.buf = archive.files[cmd.as].data]
            /\ UNCHANGED result
    /\ UNCHANGED <<files, archive, stray, ghosts, bounds>>

WriteRecovered ==
    /\ At("write") /\ cmd.name = "recover"
    /\ Written(extracted, cmd.as, "name", cmd.buf)
    /\ Exit(Done)
    /\ UNCHANGED <<src, made, archive, stray, ghosts, commands, edits>>

\* The files whose names match a prefix, the deleted ones included.
ListDirectory(a, matching) == DOMAIN a.files \intersect matching

\* list: the deleted files, or the active ones, or with a prefix all files
\* that have it.
List ==
    /\ At("list")
    /\ Exit([Done EXCEPT !.names =
               IF cmd.soft THEN SoftDeleted(archive)
               ELSE IF cmd.prefix = {} THEN Live(archive)
               ELSE ListDirectory(archive, cmd.prefix)])
    /\ UNCHANGED <<files, archive, stray, ghosts, bounds>>

\* info: "active" is FileCount, every entry of the catalog.
Info ==
    /\ At("info")
    /\ Exit([Done EXCEPT !.active = Cardinality(DOMAIN archive.files),
                         !.names  = SoftDeleted(archive)])
    /\ UNCHANGED <<files, archive, stray, ghosts, bounds>>
-----------------------------------------------------------------------------
(* compress, which knows no archive.  A path is a source and the endings    *)
(* that output paths got.                                                   *)

NodeAt(p) == IF Len(p) = 1 THEN src[p[1]] ELSE IF p \in DOMAIN made THEN made[p] ELSE Missing
Under(p) == IF IsDirectory(NodeAt(p)) THEN NodeAt(p)[2] ELSE Empty

CheckInput ==
    /\ At("options") /\ cmd.name = "compress"
    /\ IF NodeAt(cmd.path) = Missing THEN Exit(Fail)
       ELSE LET isdir == IsDirectory(NodeAt(cmd.path)) IN
            /\ cmd' = [cmd EXCEPT !.pc = IF isdir THEN "pack" ELSE "load", !.isdir = isdir,
                                  !.buf = IF isdir THEN Packed(<<>>) ELSE Missing]
            /\ UNCHANGED result
    /\ UNCHANGED <<files, archive, stray, ghosts, bounds>>

\* A file is read whole.
Load ==
    /\ At("load")
    /\ IF NodeAt(cmd.path) = Missing \/ IsDirectory(NodeAt(cmd.path)) THEN Exit(Fail)
       ELSE /\ cmd' = [cmd EXCEPT !.pc = "code", !.buf = NodeAt(cmd.path)]
            /\ UNCHANGED result
    /\ UNCHANGED <<files, archive, stray, ghosts, bounds>>

\* PackDirectory: the entries in the order in which the directory lists them,
\* which is any order, each file as it is when its turn comes.
\* Mutant: one entry counts for all.
AllPacked == IF cmd.buf[2] = <<>> THEN {} ELSE DOMAIN Under(cmd.path)
PackedNames == {cmd.buf[2][i].name : i \in DOMAIN cmd.buf[2]}
PackDirectory ==
    LET left == DOMAIN Under(cmd.path) \ PackedNames IN
    /\ At("pack")
    /\ IF ~IsDirectory(NodeAt(cmd.path)) THEN Exit(Fail)
       ELSE /\ \/ /\ left = {} /\ cmd' = [cmd EXCEPT !.pc = "code"]
               \/ \E n \in left :
                    cmd' = [cmd EXCEPT !.buf = Packed(Append(@[2],
                              [name |-> n, data |-> Under(cmd.path)[n]]))]
            /\ UNCHANGED result
    /\ UNCHANGED <<files, archive, stray, ghosts, bounds>>

Compress(x)   == Frame(x)
Decompress(x) == x[2]

\* With both flags the data is compressed.
Code ==
    LET c == "compress" \in cmd.flags
        d == "decompress" \in cmd.flags
    IN
    /\ At("code")
    /\ IF c \/ (d /\ IsFrame(cmd.buf))
       THEN /\ cmd' = [cmd EXCEPT !.pc = "write", !.buf = IF c THEN Compress(@) ELSE Decompress(@)]
            /\ UNCHANGED result
       ELSE Exit(Fail)
    /\ UNCHANGED <<files, archive, stray, ghosts, bounds>>

OutputPath ==
    Append(cmd.path, IF "compress" \in cmd.flags THEN ".zst"
                     ELSE IF cmd.isdir THEN "_extracted" ELSE ".out")

\* UnpackDirectory makes the directory and then what the entries say; a
\* buffer that is no packed directory has none.
Unpacked(x, old) ==
    IF x[1] = "packed"
    THEN FoldLeft(LAMBDA f, e : Put(f, e.name, e.data), old, x[2])
    ELSE old

\* With -d on a directory the output is a directory, with -c as well as
\* without.
WriteOutput ==
    /\ At("write") /\ cmd.name = "compress"
    /\ IF "decompress" \in cmd.flags /\ cmd.isdir
       THEN /\ made' = IF IsDirectory(NodeAt(OutputPath)) \/ NodeAt(OutputPath) = Missing
                       THEN Put(made, OutputPath,
                                Directory(Unpacked(cmd.buf, Under(OutputPath))))
                       ELSE made
            /\ Exit(Done)
            /\ UNCHANGED <<cut, faults>>
       ELSE IF IsDirectory(NodeAt(OutputPath)) THEN Exit(Fail) /\ UNCHANGED <<made, cut, faults>>
       ELSE Written(made, OutputPath, "path", cmd.buf) /\ Exit(Done)
    /\ UNCHANGED <<src, extracted, archive, stray, ghosts, commands, edits>>

-----------------------------------------------------------------------------
(* The user and the system.                                                 *)

\* A source is changed, removed, or replaced by a directory.
Edit(s, x) ==
    /\ edits < MaxEdits /\ edits' = edits + 1
    /\ src' = [src EXCEPT ![s] = x]
    /\ result' = [result EXCEPT !.quiet = FALSE]
    /\ UNCHANGED <<archive, stray, extracted, made, cmd, ghosts, cut, commands, faults>>

\* A call of the file system that the command checks fails, and the command
\* ends there: a file cannot be opened, created or read, or the directory of
\* an output cannot be made (also because a file has its name).
CallFails ==
    /\ cmd.pc \in {"init", "open", "extract", "recover", "write", "load", "pack"}
    /\ At("extract") => cmd.at <= Len(cmd.list)
    /\ Exit(FaultFound) /\ Fault
    /\ UNCHANGED <<files, archive, stray, ghosts, commands, edits>>

\* A kill between two calls: an archive that was being created stays without
\* a catalog; a rewrite may leave its temporary file.
Kill ==
    /\ cmd # NoCommand /\ Fault
    /\ stray' \in {stray} \union IF cmd.pc \in {"add", "delete"} THEN {TRUE} ELSE {}
    /\ Exit([Fail EXCEPT !.code = 137])
    /\ UNCHANGED <<files, archive, ghosts, commands, edits>>

-----------------------------------------------------------------------------
NameLists == {<<>>} \union {<<n, m>> : n, m \in Names}
InputPaths == {<<s>> : s \in Sources} \union DOMAIN made

Begin ==
    \/ \E l \in Lists, n \in Overrides, c \in Ciphers, z \in Codecs, k \in KeyArgs :
         Start([NoCommand EXCEPT !.name = "create", !.list = l, !.as = n,
                                 !.cipher = c, !.codec = z, !.given = k])
    \/ \E s \in Sources, n \in Overrides, z \in Codecs, k \in KeyArgs :
         Start([NoCommand EXCEPT !.name = "add", !.list = <<s>>, !.as = n,
                                 !.codec = z, !.given = k])
    \/ \E n \in Names, soft \in BOOLEAN, k \in KeyArgs :
         Start([NoCommand EXCEPT !.name = "delete", !.as = n, !.soft = soft, !.given = k])
    \/ \E l \in NameLists, k \in KeyArgs :
         Start([NoCommand EXCEPT !.name = "extract", !.list = l, !.given = k])
    \/ \E n \in Names, k \in KeyArgs :
         Start([NoCommand EXCEPT !.name = "recover", !.as = n, !.given = k])
    \/ \E soft \in BOOLEAN, names \in Matching, k \in KeyArgs :
         Start([NoCommand EXCEPT !.name = "list", !.soft = soft, !.prefix = names,
                                 !.given = k])
    \/ \E k \in KeyArgs : Start([NoCommand EXCEPT !.name = "info", !.given = k])
    \/ \E p \in InputPaths, fl \in SUBSET {"compress", "decompress"} :
         Len(p) < 4 /\ Start([NoCommand EXCEPT !.name = "compress", !.path = p, !.flags = fl])

Step ==
    \/ CheckOptions \/ InitArchive \/ CreateNext \/ CreateDone \/ OpenArchive
    \/ Add \/ Delete \/ ExtractNext \/ ExtractDone \/ Recover \/ WriteRecovered
    \/ List \/ Info \/ CheckInput \/ Load \/ PackDirectory \/ Code \/ WriteOutput

Next ==
    \/ Begin
    \/ Step
    \/ \E s \in Sources :
         \E x \in {Raw(d) : d \in Datas} \union {Missing} \union {Directory(t) : t \in Trees} :
           Edit(s, x)
    \/ CallFails \/ Kill

\* A command that was started keeps running.
Spec == Init /\ [][Next]_vars /\ WF_vars(Step)

-----------------------------------------------------------------------------
(* Properties.                                                              *)

Ended(name) == cmd = NoCommand /\ result.name = name

\* What the sources a create has stored make of an archive: each name holds
\* what was stored under it last.
Latest(seq, n) ==
    CHOOSE i \in DOMAIN seq : seq[i].name = n /\ \A j \in DOMAIN seq : seq[j].name = n => j <= i
FilesOf(seq) ==
    [n \in {seq[i].name : i \in DOMAIN seq} |-> File(seq[Latest(seq, n)].data)]

\* create reports success only for an archive that opens and holds all its
\* sources.  When it fails, and no call of the file system failed, the archive
\* opens too, and holds those before the one it failed at: the archive that was
\* there is spared only if nothing was stored.  Only where a call failed it can
\* leave an archive that does not open (create.cc's loop, the destructor of
\* Archive, archive_writer.cc:23-26).
CreateStoresPrefix ==
    Ended("create") /\ result.code # 137 =>
      \/ result.code = 1 /\ archive = before /\ stored = <<>>
      \/ /\ archive.state = "whole" /\ archive.files = FilesOf(stored)
         /\ result.code = 0 => Len(stored) = Len(result.list)
         /\ result.code = 1 /\ ~result.fault => Len(stored) < Len(result.list)
      \/ result.code = 1 /\ result.fault /\ archive.state = "unfinished"

\* At most one file of an archive can be recovered: that of the soft delete
\* that was the last change, and with its content (delete.cc's advice to use
\* recover; every other change drops it).
OneRecoverable ==
    /\ Cardinality(DOMAIN undo) <= 1
    /\ SoftDeleted(archive) = DOMAIN undo
    /\ \A n \in DOMAIN undo : archive.files[n].data = undo[n]

\* extract has written what the archive holds of each path before the one it
\* stopped at, except for files a full disk cut off, of which it says nothing;
\* and it stops, with an error, only at a path that is no live file or whose
\* file cannot be written (extract.cc's loop, archive_reader.cc:128-164).
ExtractWritesArchive ==
    Ended("extract") /\ result.pc = "extract" /\ result.code # 137 =>
      /\ IF result.at \in DOMAIN result.list
         THEN /\ result.code = 1
              /\ result.fault \/ result.list[result.at] \notin Live(archive)
         ELSE result.code = 0
      /\ \A i \in DOMAIN result.list :
           i < result.at =>
             LET n == result.list[i]
             IN /\ n \in Live(archive)
                /\ <<"name", n>> \in cut \/ extracted[n] = archive.files[n].data

\* What compress -c has written, unless a full disk cut it off or the user
\* changed the input meanwhile, is the input: of a directory every file, in
\* whatever order it was read.  -d gives it back from a file, and never from
\* a directory, whose packed files are no zstd frame (compress.cc).
Holds(x, input) ==
    IF IsDirectory(input)
    THEN /\ {e.name : e \in Range(x[2])} = DOMAIN input[2]
         /\ Len(x[2]) = Cardinality(DOMAIN input[2])
         /\ \A e \in Range(x[2]) : e.data = input[2][e.name]
    ELSE x = input
CompressKeepsInput ==
    Ended("compress") /\ result.code = 0 /\ result.quiet =>
      LET p == result.path IN
      /\ result.flags = {"compress"} /\ <<"path", Append(p, ".zst")>> \notin cut =>
           Holds(Decompress(made[Append(p, ".zst")]), NodeAt(p))
      /\ result.flags = {"decompress"} =>
           /\ ~IsDirectory(NodeAt(p))
           /\ \/ <<"path", Append(p, ".out")>> \in cut
              \/ made[Append(p, ".out")] = Decompress(NodeAt(p))

\* Every command ends (main.cc).
CommandsEnd == (cmd # NoCommand) ~> (cmd = NoCommand)
=============================================================================
