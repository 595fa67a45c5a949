------------------------------- MODULE Archive -------------------------------
(***************************************************************************)
(* What an .xstd archive promises to the program that uses it: a map from  *)
(* paths to files, a file being live or soft-deleted, and calls that act   *)
(* on that map one after the other.  The answer to the last call is part   *)
(* of the state, so an implementation of this specification must also      *)
(* answer every extraction with the bytes that were added.                 *)
(* Source: the public interface, src/src/archive.h.                        *)
(***************************************************************************)
CONSTANTS
  Path,      \* paths inside the archive
  Content,   \* file contents
  NoEntry    \* the value of a path that names no file

VARIABLES
  files,     \* files[p]: the file at path p, or NoEntry
  reply      \* the last call, its path and what it returned

vars == <<files, reply>>

\* The answer to a call: a status, or the content of a file.
Reply(call, p, result) == [call |-> call, path |-> p, result |-> result]
NoReply == [call |-> "none"]

Live(p) == files[p] # NoEntry /\ ~files[p].deleted
SoftDeleted(p) == files[p] # NoEntry /\ files[p].deleted

Init ==
  /\ files = [p \in Path |-> NoEntry]
  /\ reply = NoReply

\* A new archive replaces whatever the file held.
Create ==
  /\ files' = [p \in Path |-> NoEntry]
  /\ reply' = NoReply

AddFile(p, c) ==
  /\ files' = [files EXCEPT ![p] = [content |-> c, deleted |-> FALSE]]
  /\ reply' = Reply("add", p, "ok")

\* A soft delete keeps the file for RecoverFile, a hard delete forgets it.
DeleteFile(p, soft) ==
  /\ files[p] # NoEntry
  /\ files' = [files EXCEPT ![p] =
                 IF soft THEN [@ EXCEPT !.deleted = TRUE] ELSE NoEntry]
  /\ reply' = Reply("delete", p, "ok")

\* The file, live or soft-deleted, moves to q and replaces what q named.
RenameFile(p, q) ==
  /\ files[p] # NoEntry
  /\ files' = [files EXCEPT ![p] = NoEntry, ![q] = files[p]]
  /\ reply' = Reply("rename", p, "ok")

ExtractFile(p) ==
  /\ Live(p)
  /\ reply' = Reply("extract", p, files[p].content)
  /\ UNCHANGED files

RecoverFile(p) ==
  /\ SoftDeleted(p)
  /\ reply' = Reply("recover", p, files[p].content)
  /\ UNCHANGED files

\* A call on a path that names no file of the kind the call asks for.
NotFound(p) ==
  /\ \E call \in {"delete", "rename", "extract", "recover"} :
       /\ CASE call = "extract" -> ~Live(p)
            [] call = "recover" -> ~SoftDeleted(p)
            [] OTHER            -> files[p] = NoEntry
       /\ reply' = Reply(call, p, "not_found")
  /\ UNCHANGED files

Next ==
  \/ Create
  \/ \E p \in Path :
       \/ \E c \in Content : AddFile(p, c)
       \/ \E soft \in BOOLEAN : DeleteFile(p, soft)
       \/ \E q \in Path : RenameFile(p, q)
       \/ ExtractFile(p)
       \/ RecoverFile(p)
       \/ NotFound(p)

Spec == Init /\ [][Next]_vars
=============================================================================
