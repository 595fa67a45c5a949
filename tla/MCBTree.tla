------------------------------- MODULE MCBTree -------------------------------
(* Small instances of BTree.                                               *)
EXTENDS BTree

\* A new tree.
OneEmptyLeaf == << <<>> >>

\* The next leaf that splits fills the root.
FourLeaves == << <<1, 2>>, <<3, 4>>, <<5, 6>>, <<11, 12>> >>

\* The same, with room for keys where the root splits.
SpreadLeaves == << <<1, 2>>, <<3, 4>>, <<5, 8>>, <<15, 16>> >>

New == {OneEmptyLeaf}
Spread == {SpreadLeaves}
Grown == {FourLeaves}
\* Prefixes of one, of two and of no keys, some nested.
SomePrefixes == {<<3, 3>>, <<4, 8>>, <<8, 9>>, <<9, 12>>, <<13, 20>>}

NewOrGrown == New \cup Grown
=============================================================================
