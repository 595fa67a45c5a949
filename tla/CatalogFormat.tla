---------------------------- MODULE CatalogFormat ----------------------------
(***************************************************************************)
(* The catalog as it is stored (catalog.cc): the entries in the order of   *)
(* their names, each a key followed by the fields of its FileMetadata.  A  *)
(* buffer is a sequence of fields, a string or a number of any width being *)
(* one field; the timestamps and the signature, which nothing reads, are   *)
(* left out.  A catalog of less than 64 files is one leaf of the tree; how *)
(* larger trees are written is BTree's subject.  The reader is handed the  *)
(* bytes that were written, since the footer knows their number, so that   *)
(* the checks for truncated fields do not fail here.                       *)
(***************************************************************************)
EXTENDS Integers, Sequences, FiniteSets, SequencesExt

Empty == [f \in {} |-> <<>>]
Put(map, f, v) == [g \in DOMAIN map \union {f} |-> IF g = f THEN v ELSE map[g]]

SerialiseKey(key) == <<key>>
SerialiseValue(m) ==
    <<m.file_name, m.checksum, m.original_size, IF m.deleted THEN 1 ELSE 0, Len(m.pages)>>
      \o m.pages

\* Reading an entry whose key is field p of a buffer, and the place after it.
DeserialiseKey(buf, p) == buf[p]
DeserialiseValue(buf, p) ==
    [file_name     |-> buf[p + 1],
     checksum      |-> buf[p + 2],
     original_size |-> buf[p + 3],
     deleted       |-> buf[p + 4] # 0,
     pages         |-> SubSeq(buf, p + 6, p + 5 + buf[p + 5])]
After(buf, p) == p + 6 + buf[p + 5]

\* The elements of a set of names in order: i - 1 of them come before the i-th.
Sorted(S) == [i \in 1..Cardinality(S) |->
                CHOOSE n \in S : Cardinality({m \in S : m < n}) = i - 1]

Serialise(cat) ==
    LET keys == Sorted(DOMAIN cat)
        written[i \in 0..Len(keys)] ==
          IF i = 0 THEN <<Len(keys)>>
          ELSE written[i - 1] \o SerialiseKey(keys[i]) \o SerialiseValue(cat[keys[i]])
    IN written[Len(keys)]

Deserialise(buf) ==
    LET start[i \in 1..buf[1]] == IF i = 1 THEN 2 ELSE After(buf, start[i - 1])
        names == {DeserialiseKey(buf, start[i]) : i \in 1..buf[1]}
    IN [f \in names |->
          LET i == CHOOSE j \in 1..buf[1] : DeserialiseKey(buf, start[j]) = f
          IN DeserialiseValue(buf, start[i])]
=============================================================================
