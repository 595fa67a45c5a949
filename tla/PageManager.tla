----------------------------- MODULE PageManager -----------------------------
(***************************************************************************)
(* PageManager: the free-page bitmap, one bit per page slot, kept as words *)
(* that are searched for the first one with a clear bit.  A word is the    *)
(* set of its bits that are set.  Serialise splits words into bytes, which *)
(* Deserialise puts together again.                                        *)
(***************************************************************************)
EXTENDS Integers, Sequences

CONSTANTS
  ByteBits,    \* bits of a byte (8)
  WordBytes,   \* bytes of a word (8)
  FirstWords,  \* words the constructor makes for the initial capacity
  MaxWords     \* BOUND: words the bitmap may grow to

ASSUME WidthAssumption ==
  ByteBits \in Nat \ {0} /\ WordBytes \in Nat \ {0}
ASSUME WordsAssumption ==
  FirstWords \in Nat /\ MaxWords \in Nat /\ FirstWords <= MaxWords

VARIABLES
  bitmap,      \* bitmap_
  page_count,  \* page_count_
  result       \* what the last call returned: an id, None or Thrown

vars == <<bitmap, page_count, result>>

None == -1     \* the call returned nothing
Thrown == -2   \* the call threw

WordBits == ByteBits * WordBytes
Bits == 0 .. WordBits - 1
Byte == SUBSET (0 .. ByteBits - 1)
Word == SUBSET Bits

Larger(a, b) == IF a > b THEN a ELSE b
WordOf(id) == id \div WordBits + 1
\* Mutant: the bit is not reduced.
BitUnreduced(id) == id
BitOf(id) == id % WordBits
Id(w, bit) == (w - 1) * WordBits + bit

IsAllocated(id) == WordOf(id) <= Len(bitmap) /\ BitOf(id) \in bitmap[WordOf(id)]

\* CountTrailingOnes: the lowest bit that is clear.
FirstClear(word, bit) == bit \in Bits \ word /\ 0 .. bit - 1 \subseteq word

\* The words that are needed for ids below needed.
EnsureCapacity(needed) ==
  LET words == (needed + WordBits - 1) \div WordBits
  IN [w \in 1 .. Larger(words, Len(bitmap)) |->
        IF w <= Len(bitmap) THEN bitmap[w] ELSE {}]

Serialise(words) ==
  [i \in 1 .. Len(words) * WordBytes |->
     LET w == (i - 1) \div WordBytes + 1
         byte == (i - 1) % WordBytes
     IN {b \in 0 .. ByteBits - 1 : byte * ByteBits + b \in words[w]}]

\* Mutant: the bytes of a word the other way round.
DeserialiseSwapped(data) ==
  [w \in 1 .. Len(data) \div WordBytes |->
     {bit \in Bits : bit % ByteBits \in data[w * WordBytes - bit \div ByteBits]}]
Deserialise(data) ==
  [w \in 1 .. Len(data) \div WordBytes |->
     {bit \in Bits :
        bit % ByteBits \in data[(w - 1) * WordBytes + bit \div ByteBits + 1]}]
-----------------------------------------------------------------------------
Init ==
  /\ bitmap = [w \in 1 .. FirstWords |-> {}]
  /\ page_count = 0
  /\ result = None

\* Allocate finds a word with a clear bit.
AllocateBit(w, bit) ==
  /\ \A v \in 1 .. w - 1 : bitmap[v] = Bits
  /\ FirstClear(bitmap[w], bit)
  /\ bitmap' = [bitmap EXCEPT ![w] = @ \cup {bit}]
  /\ page_count' = Larger(page_count, Id(w, bit) + 1)
  /\ result' = Id(w, bit)

\* Allocate finds all words full and adds one.  BOUND: MaxWords.
AllocateWord ==
  /\ \A w \in 1 .. Len(bitmap) : bitmap[w] = Bits
  /\ Len(bitmap) < MaxWords
  /\ bitmap' = Append(bitmap, {0})
  /\ page_count' = Id(Len(bitmap) + 1, 0) + 1
  /\ result' = Id(Len(bitmap) + 1, 0)

\* Mutant: the count is one short.
AllocateAtShort(id) ==
  /\ ~IsAllocated(id)
  /\ bitmap' = [EnsureCapacity(id + 1) EXCEPT ![WordOf(id)] = @ \cup {BitOf(id)}]
  /\ page_count' = Larger(page_count, id)
  /\ result' = None
AllocateAt(id) ==
  /\ ~IsAllocated(id)
  /\ bitmap' = [EnsureCapacity(id + 1) EXCEPT ![WordOf(id)] = @ \cup {BitOf(id)}]
  /\ page_count' = Larger(page_count, id + 1)
  /\ result' = None

\* The id is in use, and so within the capacity already.
AllocateAtFails(id) ==
  /\ IsAllocated(id)
  /\ result' = Thrown
  /\ UNCHANGED <<bitmap, page_count>>

\* A no-op for an id beyond the bitmap.  PageCount does not go down.
Free(id) ==
  /\ bitmap' = IF WordOf(id) <= Len(bitmap)
               THEN [bitmap EXCEPT ![WordOf(id)] = @ \ {BitOf(id)}] ELSE bitmap
  /\ result' = None
  /\ UNCHANGED page_count

\* The bitmap is written and read back; page_count_ is computed anew.
Reload ==
  LET words == Deserialise(Serialise(bitmap))
      used == {w \in 1 .. Len(words) : words[w] # {}}
  IN /\ bitmap' = words
     /\ \/ /\ used = {}
           /\ page_count' = 0
        \/ \E w \in used : \E bit \in words[w] :
             /\ \A v \in used : v <= w
             /\ \A b \in words[w] : b <= bit
             /\ page_count' = Id(w, bit) + 1
     /\ UNCHANGED result

\* The ids the callers use.  BOUND: those of MaxWords words.
Ids == 0 .. MaxWords * WordBits - 1

Next ==
  \/ \E w \in 1 .. Len(bitmap), bit \in Bits : AllocateBit(w, bit)
  \/ AllocateWord
  \/ \E id \in Ids : AllocateAt(id) \/ AllocateAtFails(id) \/ Free(id)
  \/ Reload

Spec == Init /\ [][Next]_vars
-----------------------------------------------------------------------------
\* Every variable has its type.
TypeOK ==
  /\ bitmap \in Seq(Word)
  /\ Len(bitmap) <= MaxWords
  /\ page_count \in Nat
  /\ result \in Ids \cup {None, Thrown}

\* PageCount covers every page in use, after any mix of allocations at the
\* end and in gaps, frees and reloads (page_manager.cc:22, 41, 86-93): what
\* is sized by PageCount has room for every page.
PageCountCovers ==
  /\ \A w \in 1 .. Len(bitmap) : \A bit \in bitmap[w] : Id(w, bit) < page_count
  /\ page_count <= Len(bitmap) * WordBits

\* The bitmap is a set of ids from which Allocate takes the lowest free one,
\* and it survives being written and read back (page_manager.h:27-31).
Abstract == INSTANCE PageAllocator WITH
  allocated <- {id \in Ids : IsAllocated(id)}
RefinesPageAllocator == Abstract!Spec
=============================================================================
