------------------------------ MODULE GDeltaMain ------------------------------
(***************************************************************************)
(* The callers of the delta coder: the program gdelta_main.cpp, which tests *)
(* it with random data or writes the delta of a file, and any other program *)
(* that calls gencode and gdecode on buffers of its own.                    *)
(***************************************************************************)
EXTENDS GDelta

CONSTANTS
    Chunk,          \* size of the random buffers
    BufferSize,     \* size of the buffers a file has to fit in twice
    MarkEvery,      \* how far apart the random buffers differ
    NewMark, BaseMark

ASSUME MainAssumption ==
    /\ IsFiniteSet(Bytes) /\ Bytes = 0..(Cardinality(Bytes) - 1)
    /\ {NewMark, BaseMark} \subseteq Bytes /\ NewMark # BaseMark
    /\ Chunk \in Nat /\ BufferSize \in Nat /\ MarkEvery \in Nat \ {0}

VARIABLES
    main,           \* where the program is, "library" for another caller
    args,           \* CommandLineArgs
    output          \* the file the delta is written to

mainVars == <<main, args, output>>

NoFile   == [exists |-> FALSE, bytes |-> <<>>]
Random   == [mode |-> "random", output |-> FALSE]
File(o)  == [mode |-> "file", output |-> o]

MainInit ==
    /\ Init /\ base = <<>> /\ new = <<>>
    /\ main = "start" /\ args = Random /\ output = NoFile

\* Everything of the coder but its two buffers and its phase.
coder == <<head, tail, scanning, inst, data, delta, decoding>>

\* gencode is called.
Encode(newBuf, baseBuf) ==
    /\ new' = newBuf /\ base' = baseBuf
    /\ UNCHANGED coder

\* Another program calls it with any two buffers.
LibraryCall ==
    /\ main = "start" /\ main' = "library"
    /\ \E n \in Buffers(NewSizes), b \in Buffers(BaseSizes) : Encode(n, b)
    /\ UNCHANGED <<phase, args, output>>

\* No mode, an unknown one, or --file without a file end the program.
parseArgs ==
    /\ main = "start"
    /\ \/ /\ args' \in {Random, File(TRUE), File(FALSE)}
          /\ main' = args'.mode
       \/ main' = "failed" /\ UNCHANGED args
    /\ UNCHANGED <<vars, output>>

\* Two buffers of random bytes that differ at regular places.
Marked(bytes, mark) ==
    [i \in DOMAIN bytes |-> IF (i - 1) % MarkEvery = 0 THEN mark ELSE bytes[i]]

testRandomData ==
    /\ main = "random" /\ main' = "testing"
    /\ \E r \in Buffers({Chunk}) : Encode(Marked(r, NewMark), Marked(r, BaseMark))
    /\ UNCHANGED <<phase, args, output>>

\* The base of a file is the file with one added to each byte.
Shifted(bytes) == [i \in DOMAIN bytes |-> (bytes[i] + 1) % Cardinality(Bytes)]

\* A file that cannot be opened, or is too large, is reported, and the
\* program ends as if all was well.
testFileData ==
    /\ main = "file"
    /\ \/ \E f \in Buffers(NewSizes) :
            IF Len(f) > BufferSize \div 2
            THEN main' = "ended" /\ UNCHANGED vars
            ELSE main' = "coding" /\ Encode(f, Shifted(f)) /\ UNCHANGED phase
       \/ main' = "ended" /\ UNCHANGED vars
    /\ UNCHANGED <<args, output>>

\* The delta goes to the output file, if there is one and it can be opened;
\* a full disk is left out.
WriteDelta ==
    /\ main = "coding" /\ phase = "coded"
    /\ \/ args.output /\ output' = [exists |-> TRUE, bytes |-> delta] /\ main' = "written"
       \/ UNCHANGED output /\ main' = "ended"
    /\ UNCHANGED <<vars, args>>

\* The test's own comparison: an error is printed, the exit code stays 0.
Verify ==
    /\ main = "testing" /\ phase = "done"
    /\ main' = IF Len(out) # Chunk \/ out # new THEN "mismatch" ELSE "ended"
    /\ UNCHANGED <<vars, args, output>>

\* Whoever needs the file again decodes the delta of the output file.
DecodeFile ==
    /\ main = "written" /\ phase = "coded"
    /\ phase' = "decode"
    /\ LET length == read_varint(output.bytes, 1)
       IN cursor' = length.cursor /\ lits' = length.cursor + length.val
    /\ UNCHANGED <<base, new, head, tail, scanning, inst, data, delta, out, mainVars>>

\* gencode runs once it has its buffers; gdecode follows in the same program.
Running   == main \in {"library", "testing", "coding"}
Coding    ==
    /\ Running \/ main = "written"
    /\ phase = "coded" => main \in {"library", "testing"}
    /\ Next
    /\ UNCHANGED mainVars

MainNext ==
    \/ LibraryCall \/ parseArgs \/ testRandomData \/ testFileData
    \/ WriteDelta \/ Verify \/ DecodeFile
    \/ Coding

MainSpec == MainInit /\ [][MainNext]_<<vars, mainVars>>
=============================================================================
