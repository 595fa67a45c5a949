------------------------------- MODULE GDelta -------------------------------
(***************************************************************************)
(* The delta coder of packages/gdelta: gencode describes a buffer by copies *)
(* from a base and by literals, gdecode puts it together again.  gencode    *)
(* goes through the buffer step by step; whether the hash table, which      *)
(* holds one position per hash value, has an entry for a word, and which,   *)
(* is left open.  Sizes are scaled down (8-byte words, runs of more than    *)
(* 16 bytes, parts of 7 bits in the code), and the comparisons in blocks    *)
(* that only save time are left out.                                        *)
(***************************************************************************)
EXTENDS Integers, Sequences, FiniteSets, SequencesExt

CONSTANTS
    Bytes,          \* values of a byte
    BaseSizes,      \* lengths of the base
    NewSizes,       \* lengths of the buffer to encode
    WordSize,       \* bytes a match starts with
    LongRun,        \* a common head or tail counts when it is longer
    Stride,         \* BaseSampleRate: every how many bytes the base is hashed
    Block,          \* bytes ReverseMatch extends a match by
    SkipUnit,       \* bytes behind the last match for which one more is skipped
    Part            \* values of a part of a varint, 2 ^ 7 in the code

ASSUME GDeltaAssumption ==
    /\ BaseSizes \subseteq Nat /\ NewSizes \subseteq Nat
    /\ {WordSize, Stride, Block, SkipUnit} \subseteq Nat \ {0}
    /\ LongRun \in Nat /\ Part \in Nat \ {0, 1}

VARIABLES
    base, new,      \* the two buffers
    phase,          \* where gencode or gdecode is
    head, tail,     \* begSize and endSize
    pos,            \* inputPos
    handled,        \* handleBytes
    unit,           \* the unit that is being put together
    literal,        \* lastLiteral_begin
    lastmatch,      \* lastMatchPos
    inst, data,     \* instStream and dataStream
    delta,          \* deltaStream
    cursor, lits,   \* gdecode: cursors of instructions and literals
    out             \* gdecode: outStream

vars == <<base, new, phase, head, tail, pos, handled, unit, literal, lastmatch,
          inst, data, delta, cursor, lits, out>>

-----------------------------------------------------------------------------
(* Varints and units.                                                       *)

\* The lowest bits first, each part with a bit that says whether more follow.
write_varint(val) ==
    LET parts[v \in 0..val] ==
          IF v < Part THEN <<[more |-> FALSE, sub |-> v]>>
          ELSE <<[more |-> TRUE, sub |-> v % Part]>> \o parts[v \div Part]
    IN parts[val]

\* The value that starts at cursor c, and the cursor behind it.
read_varint(stream, c) ==
    LET last == CHOOSE i \in c..Len(stream) :
                  ~stream[i].more /\ \A j \in c..(i - 1) : stream[j].more
        value[i \in c..last] ==
          stream[i].sub + IF i = last THEN 0 ELSE Part * value[i + 1]
    IN [val |-> value[c], cursor |-> last + 1]

\* The first byte of a unit has its flag and the lowest bit of its length
\* (DeltaHeadUnit::lenbits is 1).
Copy(offset, length) == [flag |-> TRUE, offset |-> offset, length |-> length]
Literal(length)      == [flag |-> FALSE, offset |-> 0, length |-> length]

write_unit(u) ==
    <<[flag |-> u.flag, more |-> u.length > 1, sub |-> u.length % 2]>>
    \o (IF u.length \div 2 > 0 THEN write_varint(u.length \div 2) ELSE <<>>)
    \o (IF u.flag THEN write_varint(u.offset) ELSE <<>>)

read_unit(stream, c) ==
    LET h    == stream[c]
        rest == IF h.more THEN read_varint(stream, c + 1) ELSE [val |-> 0, cursor |-> c + 1]
        off  == IF h.flag THEN read_varint(stream, rest.cursor) ELSE [val |-> 0, cursor |-> rest.cursor]
    IN [unit   |-> [flag |-> h.flag, offset |-> off.val, length |-> 2 * rest.val + h.sub],
        cursor |-> off.cursor]

\* length bytes of a buffer from an offset on, which counts from 0.
From(bytes, offset, length) == SubSeq(bytes, offset + 1, offset + length)

-----------------------------------------------------------------------------
(* gencode.                                                                 *)

Buffers(sizes) == UNION {[1..n -> Bytes] : n \in sizes}

Init ==
    /\ base \in Buffers(BaseSizes) /\ new \in Buffers(NewSizes)
    /\ phase = "detect"
    /\ head = 0 /\ tail = 0
    /\ pos = 0 /\ handled = 0 /\ literal = 0 /\ lastmatch = 0
    /\ unit = Literal(0)
    /\ inst = <<>> /\ data = <<>> /\ delta = <<>>
    /\ cursor = 0 /\ lits = 0 /\ out = <<>>

scanning == <<pos, handled, unit, literal, lastmatch>>
decoding == <<cursor, lits, out>>

Larger(a, b)  == IF a > b THEN a ELSE b
Smaller(a, b) == IF a < b THEN a ELSE b

\* How many bytes are the same from the first on, up to a limit.
Longest(limit, same) ==
    CHOOSE n \in 0..limit : 1..n \subseteq same /\ (n < limit => n + 1 \notin same)

\* What is left of a common tail behind a head of beg bytes.
EndSize(ends, beg) == Smaller(ends, Len(new) - beg)

\* A common head, a common tail that does not overlap it in the new buffer;
\* short ones do not count.
Detect ==
    LET size   == Smaller(Len(base), Len(new))
        begins == Longest(size, {i \in 1..size : base[i] = new[i]})
        beg    == IF begins > LongRun THEN begins ELSE 0
        ends   == Longest(size, {i \in 1..size : base[Len(base) + 1 - i] = new[Len(new) + 1 - i]})
        fits   == EndSize(ends, beg)
    IN
    /\ phase = "detect"
    /\ head' = beg
    /\ tail' = IF fits > LongRun THEN fits ELSE 0
    /\ phase' = IF beg + tail' >= Len(base) THEN "covered" ELSE "begin"
    /\ UNCHANGED <<base, new, scanning, inst, data, delta, decoding>>

HeadUnit == IF head > 0 THEN write_unit(Copy(0, head)) ELSE <<>>
TailUnit == IF tail > 0 THEN write_unit(Copy(Len(base) - tail, tail)) ELSE <<>>
Middle   == Len(new) - head - tail

\* The delta: the length of the instructions, these, and the literals.
Emit(i, d) ==
    /\ inst' = i /\ data' = d
    /\ delta' = write_varint(Len(i)) \o i \o d
    /\ phase' = "coded"

\* Head and tail make up the base: one literal between them.
Covered ==
    /\ phase = "covered"
    /\ Emit(HeadUnit \o (IF Middle > 0 THEN write_unit(Literal(Middle)) ELSE <<>>) \o TailUnit,
            IF Middle > 0 THEN From(new, head, Middle) ELSE <<>>)
    /\ UNCHANGED <<base, new, head, tail, scanning, decoding>>

Begin ==
    /\ phase = "begin"
    /\ inst' = HeadUnit
    /\ unit' = [Literal(0) EXCEPT !.flag = head > 0]
    /\ pos' = head /\ handled' = head /\ literal' = head /\ lastmatch' = head
    /\ phase' = "scan"
    /\ UNCHANGED <<base, new, head, tail, data, delta, decoding>>

\* GFixSizeChunking and its variants, one for each stride: the positions of
\* the base that may be in the table.
Hashed ==
    LET len == Len(base) - head - tail
    IN IF len < WordSize THEN {}
       ELSE {head + i : i \in {j \in 0..len : j % Stride = 0 /\ j < len - WordSize - (Stride - 1)}}

\* What the table says for the word at pos: a position, or 0 for none.
baseoffsets == {0} \union Hashed

Scanning == phase = "scan" /\ pos + WordSize <= Len(new) - tail
Matches(o) == o # 0 /\ From(base, o, WordSize) = From(new, pos, WordSize)

\* A match is extended forward as far as head and tail leave room, and
\* backward over bytes that were to be literals.
Match(o) ==
    LET ahead == Smaller(Len(base) - tail - o, Len(new) - tail - pos) - WordSize
        more  == Longest(ahead, {j \in 1..ahead : base[o + WordSize + j] = new[pos + WordSize + j]})
        len   == WordSize + more
        pending == ~unit.flag /\ unit.length > 0
        behind  == Smaller(o, unit.length)
        back == IF pending
                THEN Longest(behind, {k \in 1..behind : base[o - k + 1] = new[pos - k + 1]})
                ELSE 0
        left == IF pending THEN unit.length - back ELSE 0
    IN
    /\ Scanning /\ Matches(o)
    /\ inst' = inst \o (IF left > 0 THEN write_unit(Literal(left)) ELSE <<>>)
                    \o write_unit(Copy(o - back, len + back))
    /\ data' = data \o From(new, literal, left)
    /\ unit' = Copy(o - back, 0)
    /\ pos' = pos + len /\ handled' = handled + len
    /\ literal' = pos' /\ lastmatch' = pos'
    /\ UNCHANGED <<base, new, phase, head, tail, delta, decoding>>

\* No match, but the ends of the two words agree in more than half of it:
\* how many of the word's bytes do.
EndsAlike(o) ==
    Longest(WordSize, {i \in 1..WordSize :
                         base[o + WordSize + 1 - i] = new[pos + WordSize + 1 - i]})
ReverseMatches(o) == o # 0 /\ ~Matches(o) /\ EndsAlike(o) > WordSize \div 2

ReverseMatch(o) ==
    LET alike  == EndsAlike(o)
        front  == WordSize - alike
        ahead  == Smaller((Len(base) - o - WordSize) \div Block,
                          (Len(new) - tail - pos - WordSize) \div Block)
        blocks == Longest(ahead, {b \in 1..ahead :
                                    From(base, o + WordSize + Block * (b - 1), Block)
                                      = From(new, pos + WordSize + Block * (b - 1), Block)})
        more   == Block * blocks
        length == unit.length + front
    IN
    /\ Scanning /\ ReverseMatches(o)
    /\ inst' = inst \o write_unit(Literal(length)) \o write_unit(Copy(o + front, alike + more))
    /\ data' = data \o From(new, literal, length)
    /\ unit' = Copy(o + front, 0)
    /\ pos' = pos + WordSize + more /\ handled' = handled + WordSize + more
    /\ literal' = pos' /\ lastmatch' = pos'
    /\ UNCHANGED <<base, new, phase, head, tail, delta, decoding>>

\* The further the last match is behind, the more bytes are skipped at once.
Skip ==
    LET step  == (pos + 1 - lastmatch) \div SkipUnit
        limit == Len(new) - tail
    IN IF step <= WordSize THEN Larger(0, Smaller(step, limit - WordSize - (pos + 1)))
                           ELSE Smaller(limit, pos + 1 + step) - (pos + 1)

\* The pending literal with one byte more, and those that are skipped.
PendingOfOne(skip) == [unit EXCEPT !.flag = FALSE, !.length = @ + 1]
Pending(skip)      == [unit EXCEPT !.flag = FALSE, !.length = @ + 1 + skip]

NoMatch(o) ==
    /\ Scanning /\ ~Matches(o) /\ ~ReverseMatches(o)
    /\ unit' = Pending(Skip)
    /\ pos' = pos + 1 + Skip /\ handled' = handled + 1 + Skip
    /\ UNCHANGED <<base, new, phase, head, tail, literal, lastmatch, inst, data, delta, decoding>>

\* Whether bytes are left for a last literal: one is pending, or the last
\* unit was a copy that does not reach the tail.
PendingLiteral == ~unit.flag /\ unit.length > 0
Unfinished     == PendingLiteral \/ Len(new) - tail - handled # 0

Finish ==
    LET rest == Len(new) - tail - literal
        more == Unfinished
    IN
    /\ phase = "scan" /\ ~Scanning
    /\ Emit(inst \o (IF more THEN write_unit(Literal(rest)) ELSE <<>>) \o TailUnit,
            IF more THEN data \o From(new, literal, rest) ELSE data)
    /\ unit' = [unit EXCEPT !.length = 0]
    /\ UNCHANGED <<base, new, head, tail, pos, handled, literal, lastmatch, decoding>>

-----------------------------------------------------------------------------
(* gdecode.                                                                 *)

InstLength == read_varint(delta, 1)

DecodeBegin ==
    /\ phase = "coded"
    /\ phase' = "decode"
    /\ cursor' = InstLength.cursor
    /\ lits' = InstLength.cursor + InstLength.val
    /\ UNCHANGED <<base, new, head, tail, scanning, inst, data, delta, out>>

DecodeUnit ==
    LET read == read_unit(delta, cursor)
        u    == read.unit
    IN
    /\ phase = "decode" /\ cursor < InstLength.cursor + InstLength.val
    /\ out' = out \o IF u.flag THEN From(base, u.offset, u.length)
                               ELSE SubSeq(delta, lits, lits + u.length - 1)
    /\ lits' = IF u.flag THEN lits ELSE lits + u.length
    /\ cursor' = read.cursor
    /\ UNCHANGED <<base, new, phase, head, tail, scanning, inst, data, delta>>

DecodeEnd ==
    /\ phase = "decode" /\ cursor >= InstLength.cursor + InstLength.val
    /\ phase' = "done"
    /\ UNCHANGED <<base, new, head, tail, scanning, inst, data, delta, decoding>>

Next ==
    \/ Detect \/ Covered \/ Begin
    \/ \E o \in baseoffsets : Match(o) \/ ReverseMatch(o) \/ NoMatch(o)
    \/ Finish
    \/ DecodeBegin \/ DecodeUnit \/ DecodeEnd

Spec == Init /\ [][Next]_vars /\ WF_vars(Next)

-----------------------------------------------------------------------------
(* Properties.                                                              *)

\* Whatever the hash table answered, gdecode gives back the buffer: head and
\* tail, overlapping or not, matches in both directions, skipped bytes and
\* the rest at the end all add up (gencode, gdecode).
DecodeRestores == phase = "done" => out = new

\* While gencode scans, the bytes it has handled are those before inputPos,
\* and those since the last unit are the pending literal (handleBytes,
\* lastLiteral_begin and unit.length are counted apart).
LiteralsAccounted ==
    phase = "scan" =>
      /\ handled = pos /\ pos <= Len(new) - tail
      /\ literal + (IF unit.flag THEN 0 ELSE unit.length) = pos
=============================================================================
