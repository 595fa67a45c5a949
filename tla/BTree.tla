-------------------------------- MODULE BTree --------------------------------
(***************************************************************************)
(* The B+ tree of the catalog, node by node: leaves chained by prev/next,  *)
(* parent pointers, lazy deletion.  The arrays of a node are modelled with *)
(* their unused part, since stale children and moved-from keys matter once *)
(* a parent pointer is wrong.  A call of Insert that splits nodes is a     *)
(* sequence of steps, one per node it splits or extends.                   *)
(***************************************************************************)
EXTENDS Integers, Sequences, FiniteSets, SequencesExt

CONSTANTS
  Order,       \* keys per node (64 in the catalog)
  Key,         \* positive integers; 0 is the default, and a moved-from, key
  Value,       \* positive integers; 0 is the default value
  Loaded,      \* trees read from a file: the keys of each of their leaves
  PathPrefixes,  \* prefixes scanned for: <<p, last key that starts with p>>
  MaxNodes     \* BOUND: nodes ever allocated

ASSUME OrderAssumption == Order \in Nat /\ Order >= 4 /\ Order % 2 = 0
ASSUME KeyAssumption == Key \subseteq Nat \ {0} /\ Value \subseteq Nat \ {0}
\* The keys that start with a prefix are the prefix itself, if it is a key,
\* and the keys that follow it, up to the last.
ASSUME PrefixAssumption == \A p \in PathPrefixes : p[1] \in Nat /\ p[2] \in Nat /\ p[1] <= p[2]
\* One leaf or the leaves under one root, as ascending insertions make them.
ASSUME LoadedAssumption ==
  \A tree \in Loaded :
    /\ tree \in Seq(Seq(Nat \ {0})) /\ Len(tree) \in 1 .. Order
    /\ \A i \in DOMAIN tree : Len(tree[i]) < Order
    /\ Len(tree) > 1 => \A i \in DOMAIN tree : Len(tree[i]) >= Order \div 2

VARIABLES
  nodes,   \* the allocated nodes; a pointer is an index, null is 0
  root,    \* root_
  size,    \* size_
  call,    \* the call of Insert in progress, or Idle
  last     \* history: what an exact map would hold, 0 for no value

vars == <<nodes, root, size, call, last>>

Mid == Order \div 2
Blank(leaf) ==
  [leaf |-> leaf, n |-> 0, keys |-> [i \in 0 .. Order - 1 |-> 0],
   vals |-> [i \in 0 .. Order - 1 |-> 0], kids |-> [i \in 0 .. Order |-> 0],
   parent |-> 0, prev |-> 0, next |-> 0]

\* Mutant: x goes to the end.
AtEnd(a, n, k, x) == [a EXCEPT ![n] = x]
\* x enters array a of length n at index k, those from k on move right.
ShiftIn(a, n, k, x) ==
  [i \in DOMAIN a |-> IF i = k THEN x ELSE IF k < i /\ i <= n THEN a[i - 1] ELSE a[i]]
\* Mutant: nothing moves.
NothingOut(a, n, k) == a
\* The element at k leaves array a of length n; the last one is moved from.
ShiftOut(a, n, k) ==
  [i \in DOMAIN a |-> IF i = n - 1 THEN 0 ELSE IF k <= i /\ i < n THEN a[i + 1] ELSE a[i]]
\* Mutant: a node splits one insertion too late.
Overfull(n) == n > Order
\* A node of n keys must be split.
Full(n) == n = Order

\* The elements of a up to index k, and those from index k on.
Left(a, k) == [i \in DOMAIN a |-> IF i < k THEN a[i] ELSE 0]
Right(a, k) == [i \in DOMAIN a |-> IF i + k \in DOMAIN a THEN a[i + k] ELSE 0]

\* The first index whose key is not less than k.
Position(m, k) ==
  CHOOSE i \in 0 .. nodes[m].n :
    /\ i = nodes[m].n \/ nodes[m].keys[i] >= k
    /\ \A j \in 0 .. i - 1 : nodes[m].keys[j] < k

\* FindLeaf: a key equal to a separator goes to the separator's left.
FindLeaf(k) ==
  LET down[m \in DOMAIN nodes] ==
        IF nodes[m].leaf THEN m ELSE down[nodes[m].kids[Position(m, k)]]
  IN down[root]

Hit(m, k) ==
  LET i == Position(m, k) IN i < nodes[m].n /\ nodes[m].keys[i] = k

Find(k) ==
  LET m == FindLeaf(k) IN IF Hit(m, k) THEN nodes[m].vals[Position(m, k)] ELSE 0

Entries(m) ==
  [i \in 1 .. nodes[m].n |-> <<nodes[m].keys[i - 1], nodes[m].vals[i - 1]>>]
Kids(m) == [i \in 1 .. nodes[m].n + 1 |-> nodes[m].kids[i - 1]]

LeftmostLeaf ==
  LET leftmost[m \in DOMAIN nodes] ==
        IF nodes[m].leaf THEN m ELSE leftmost[nodes[m].kids[0]]
  IN leftmost[root]

\* The entries of the chain of leaves that starts with m.
Chain(m) ==
  LET chain[x \in 0 .. Len(nodes)] ==
        IF x = 0 THEN <<>> ELSE Entries(x) \o chain[nodes[x].next]
  IN chain[m]
ScanAll == Chain(LeftmostLeaf)

StartsWith(p, e) == p[1] <= e[1] /\ e[1] <= p[2]
\* Mutant: the scan ends with the leaf it starts in.
PrefixScanLeaf(p) ==
  LET m == FindLeaf(p[1])
  IN SelectSeq(SubSeq(Entries(m), Position(m, p[1]) + 1, nodes[m].n),
               LAMBDA e : StartsWith(p, e))
\* PrefixScan and PrefixScanCollect of a prefix that is not empty: from the
\* place of the prefix along the chain, up to the first key without it.
PrefixScanCollect(p) ==
  LET m    == FindLeaf(p[1])
      rest == SubSeq(Entries(m), Position(m, p[1]) + 1, nodes[m].n)
                \o Chain(nodes[m].next)
      ends == {i \in DOMAIN rest : ~StartsWith(p, rest[i])} \cup {Len(rest) + 1}
  IN SubSeq(rest, 1, (CHOOSE i \in ends : \A j \in ends : i <= j) - 1)

\* The nodes below m in the depth-first order of SerialiseNode.
Preorder(m) ==
  LET walk[x \in DOMAIN nodes] ==
        IF nodes[x].leaf THEN <<x>>
        ELSE <<x>> \o FlattenSeq([i \in DOMAIN Kids(x) |-> walk[Kids(x)[i]]])
  IN walk[m]
IsLeaf(m) == nodes[m].leaf
Leaves == SelectSeq(Preorder(root), IsLeaf)

\* The entries Serialise writes, in the order in which it writes them.
Serialise == FlattenSeq([i \in DOMAIN Leaves |-> Entries(Leaves[i])])
-----------------------------------------------------------------------------
Idle == [step |-> "idle"]

KeysIn(tree) == UNION {Range(tree[i]) : i \in DOMAIN tree}
AnyKey == Key \cup UNION {KeysIn(tree) : tree \in Loaded}
LoadedValue == CHOOSE v \in Value : TRUE
LoadedLeaf(tree, i) ==
  [Blank(TRUE) EXCEPT
     !.n = Len(tree[i]),
     !.keys = [j \in DOMAIN @ |-> IF j < Len(tree[i]) THEN tree[i][j + 1] ELSE 0],
     !.vals = [j \in DOMAIN @ |-> IF j < Len(tree[i]) THEN LoadedValue ELSE 0],
     !.parent = IF Len(tree) = 1 THEN 0 ELSE Len(tree) + 1,
     !.prev = i - 1,
     !.next = IF i = Len(tree) THEN 0 ELSE i + 1]
\* A separator is the first key of the leaf on its right.
LoadedRoot(tree) ==
  LET n == Len(tree) - 1 IN
    [Blank(FALSE) EXCEPT
       !.n = n,
       !.keys = [i \in DOMAIN @ |-> IF i < n THEN tree[i + 2][1] ELSE 0],
       !.kids = [i \in DOMAIN @ |-> IF i <= n THEN i + 1 ELSE 0]]

\* A new tree (one empty leaf), or one that Deserialise has just built.
Init ==
  /\ \E tree \in Loaded :
       /\ nodes = [i \in DOMAIN tree |-> LoadedLeaf(tree, i)]
                    \o IF Len(tree) = 1 THEN <<>> ELSE <<LoadedRoot(tree)>>
       /\ size = Cardinality(KeysIn(tree))
       /\ last = [k \in AnyKey |-> IF k \in KeysIn(tree) THEN LoadedValue ELSE 0]
  /\ root = Len(nodes)
  /\ call = Idle

\* Insert of a key that FindLeaf finds.
Overwrite(k, v) ==
  /\ call = Idle
  /\ LET m == FindLeaf(k) IN
       /\ Hit(m, k)
       /\ nodes' = [nodes EXCEPT ![m].vals[Position(m, k)] = v]
  /\ last' = [last EXCEPT ![k] = v]
  /\ UNCHANGED <<root, size, call>>

\* Insert of another key.  BOUND: a split has room for the nodes it makes.
Insert(k, v) ==
  /\ call = Idle
  /\ LET m == FindLeaf(k)
         i == Position(m, k)
         n == nodes[m].n
     IN /\ ~Hit(m, k)
        /\ Full(n + 1) => Len(nodes) + 3 <= MaxNodes
        /\ nodes' = [nodes EXCEPT ![m].keys = ShiftIn(@, n, i, k),
                                  ![m].vals = ShiftIn(@, n, i, v),
                                  ![m].n = n + 1]
        /\ call' = IF Full(n + 1) THEN [step |-> "split_leaf", node |-> m] ELSE Idle
  /\ size' = size + 1
  /\ last' = [last EXCEPT ![k] = v]
  /\ UNCHANGED root

\* The rest of SplitLeaf or SplitInternal once InsertInParent(left, key, right)
\* has returned: right->parent = left->parent.  "splits" lists what is to do.
InParent(left, key, right, splits) ==
  [step |-> "parent", left |-> left, key |-> key, right |-> right,
   splits |-> Append(splits, <<left, right>>)]

SplitLeaf ==
  /\ call.step = "split_leaf"
  /\ LET m == call.node
         r == Len(nodes) + 1
         x == nodes[m]
         right == [Blank(TRUE) EXCEPT !.n = x.n - Mid, !.keys = Right(x.keys, Mid),
                                      !.vals = Right(x.vals, Mid),
                                      !.prev = m, !.next = x.next]
         left == [x EXCEPT !.n = Mid, !.keys = Left(x.keys, Mid),
                           !.vals = Left(x.vals, Mid), !.next = r]
     IN /\ nodes' = Append([y \in DOMAIN nodes |->
                              IF y = m THEN left
                              ELSE IF y = x.next THEN [nodes[y] EXCEPT !.prev = r]
                              ELSE nodes[y]], right)
        /\ call' = InParent(m, right.keys[0], r, <<>>)
  /\ UNCHANGED <<root, size, last>>

\* Every split on the way back hands its right node the parent of the left one.
Returned(heap) ==
  [x \in DOMAIN heap |->
     IF \E s \in DOMAIN call.splits : call.splits[s][2] = x
     THEN LET s == CHOOSE s \in DOMAIN call.splits : call.splits[s][2] = x
          IN [heap[x] EXCEPT !.parent = heap[call.splits[s][1]].parent]
     ELSE heap[x]]

\* InsertInParent of the two halves of the root.
NewRoot ==
  /\ call.step = "parent"
  /\ call.left = root
  /\ LET r == Len(nodes) + 1
         top == [Blank(FALSE) EXCEPT !.n = 1, !.keys[0] = call.key,
                                     !.kids[0] = call.left, !.kids[1] = call.right]
     IN /\ nodes' = Returned(Append([nodes EXCEPT ![call.left].parent = r,
                                                  ![call.right].parent = r], top))
        /\ root' = r
  /\ call' = Idle
  /\ UNCHANGED <<size, last>>

\* The node that InsertInParent extends, and where; n + 1 if the parent does
\* not have left among its children.
Parent == nodes[call.left].parent
Slot ==
  LET x == nodes[Parent]
      at == {i \in 0 .. x.n : x.kids[i] = call.left}
  IN IF at = {} THEN x.n + 1 ELSE CHOOSE i \in at : \A j \in at : i <= j
\* Mutant: the new child goes to the left of the old one.
ExtendedLeft ==
  LET x == nodes[Parent] IN
    [nodes EXCEPT
       ![Parent].keys = ShiftIn(@, x.n, Slot, call.key),
       ![Parent].kids = ShiftIn(@, x.n + 1, Slot, call.right),
       ![Parent].n = x.n + 1,
       ![call.right].parent = Parent]
Extended ==
  LET x == nodes[Parent] IN
    [nodes EXCEPT
       ![Parent].keys = ShiftIn(@, x.n, Slot, call.key),
       ![Parent].kids = ShiftIn(@, x.n + 1, Slot + 1, call.right),
       ![Parent].n = x.n + 1,
       ![call.right].parent = Parent]

ExtendParent ==
  /\ call.step = "parent"
  /\ call.left # root
  /\ Slot < Order
  /\ IF Full(nodes[Parent].n + 1)
     THEN /\ nodes' = Extended
          /\ call' = [step |-> "split_internal", node |-> Parent,
                      splits |-> call.splits]
     ELSE /\ nodes' = Returned(Extended)
          /\ call' = Idle
  /\ UNCHANGED <<root, size, last>>

SplitInternal ==
  /\ call.step = "split_internal"
  /\ LET m == call.node
         r == Len(nodes) + 1
         x == nodes[m]
         right == [Blank(FALSE) EXCEPT !.n = x.n - Mid - 1,
                                       !.keys = Right(x.keys, Mid + 1),
                                       !.kids = Right(x.kids, Mid + 1)]
         left == [x EXCEPT !.n = Mid, !.keys = Left(x.keys, Mid)]
         moved == {right.kids[i] : i \in 0 .. right.n} \ {0}
     IN /\ nodes' = Append([y \in DOMAIN nodes |->
                              IF y = m THEN left
                              ELSE IF y \in moved THEN [nodes[y] EXCEPT !.parent = r]
                              ELSE nodes[y]], right)
        /\ call' = InParent(m, x.keys[Mid], r, call.splits)
  /\ UNCHANGED <<root, size, last>>

\* Erase; false, and no change, for a key FindLeaf does not find.
Erase(k) ==
  /\ call = Idle
  /\ LET m == FindLeaf(k)
         i == Position(m, k)
         n == nodes[m].n
     IN IF Hit(m, k)
        THEN /\ nodes' = [nodes EXCEPT ![m].keys = ShiftOut(@, n, i),
                                       ![m].vals = ShiftOut(@, n, i),
                                       ![m].n = n - 1]
             /\ size' = size - 1
        ELSE UNCHANGED <<nodes, size>>
  /\ last' = [last EXCEPT ![k] = 0]
  /\ UNCHANGED <<root, call>>

\* The node read back for node m: what Serialise wrote of it, nothing in the
\* unused parts of the arrays, and the parent it was reached from.
DeserialiseNode(m) ==
  LET above == {x \in DOMAIN nodes : ~nodes[x].leaf /\ m \in Range(Kids(x))}
  IN [nodes[m] EXCEPT
        !.keys = Left(@, nodes[m].n), !.vals = Left(@, nodes[m].n),
        !.kids = IF nodes[m].leaf THEN @ ELSE Left(@, nodes[m].n + 1),
        !.parent = IF m = root THEN 0 ELSE CHOOSE x \in above : TRUE]

\* The leaves, in the order in which they were read, chained again.
RebuildLeafLinks(heap) ==
  LET neighbour(i) == IF i \in DOMAIN Leaves THEN Leaves[i] ELSE 0
  IN [m \in DOMAIN heap |->
        IF \E i \in DOMAIN Leaves : Leaves[i] = m
        THEN LET i == CHOOSE i \in DOMAIN Leaves : Leaves[i] = m
             IN [heap[m] EXCEPT !.prev = neighbour(i - 1), !.next = neighbour(i + 1)]
        ELSE heap[m]]

\* Serialise and Deserialise: the same shape, made anew.
\* (A node reached twice would become two; that tree is not reloaded here.)
Reload ==
  /\ call = Idle
  /\ IsInjective(Preorder(root))
  /\ nodes' = RebuildLeafLinks([m \in DOMAIN nodes |->
                 IF m \in Range(Preorder(root)) THEN DeserialiseNode(m) ELSE nodes[m]])
  /\ size' = Len(Serialise)
  /\ UNCHANGED <<root, call, last>>

Step == SplitLeaf \/ NewRoot \/ ExtendParent \/ SplitInternal

Next ==
  \/ \E k \in Key, v \in Value : Overwrite(k, v) \/ Insert(k, v)
  \/ \E k \in Key : Erase(k)
  \/ Reload
  \/ Step

Spec == Init /\ [][Next]_vars
-----------------------------------------------------------------------------
Pointer == 0 .. MaxNodes
Node == [leaf: BOOLEAN, n: 0 .. Order, keys: [0 .. Order - 1 -> DOMAIN last \cup {0}],
         vals: [0 .. Order - 1 -> Value \cup {0}], kids: [0 .. Order -> Pointer],
         parent: Pointer, prev: Pointer, next: Pointer]

\* Every variable has its type; a node is full only while it is being split.
TypeOK ==
  /\ \A m \in DOMAIN nodes :
       /\ nodes[m] \in Node
       /\ call = Idle => nodes[m].n < Order
  /\ Len(nodes) <= MaxNodes
  /\ root \in DOMAIN nodes
  /\ size \in Nat
  /\ last \in [AnyKey -> Value \cup {0}]

\* The root reaches every node once, as a child of its parent.
WellLinked ==
  /\ IsInjective(Preorder(root))
  /\ \A m \in Range(Preorder(root)) \ {root} :
       LET x == nodes[m].parent IN x # 0 /\ ~nodes[x].leaf /\ m \in Range(Kids(x))

\* ScanAll visits the entries in ascending key order, whatever was inserted,
\* erased and split before, as long as the nodes are linked right; ListFiles
\* and the prefix scan rely on it.
ScanSorted ==
  call = Idle /\ WellLinked =>
    LET s == ScanAll IN \A i \in 1 .. Len(s) - 1 : s[i][1] <= s[i + 1][1]

\* size_, which the footer records and the reader compares with the number of
\* entries it reads (archive_reader.cc:250), is the number of entries, and
\* the chain of leaves holds what Serialise writes, with the same proviso.
SizeIsEntries ==
  call = Idle /\ WellLinked => size = Len(ScanAll) /\ Serialise = ScanAll

\* A lookup never answers with a value that was overwritten or erased.
FindNeverStale ==
  call = Idle /\ WellLinked => \A k \in DOMAIN last : Find(k) \in {0, last[k]}

\* A key that was inserted and is not found is a separator: FindLeaf turns
\* left at a separator, the entry is to its right.
Separators == UNION {{nodes[m].keys[i] : i \in 0 .. nodes[m].n - 1}
                     : m \in {x \in DOMAIN nodes : ~nodes[x].leaf}}
LostAreSeparators ==
  call = Idle /\ WellLinked => \A k \in DOMAIN last \ Separators : Find(k) = last[k]

\* A prefix scan, which ListDirectory shows, finds every entry that ScanAll
\* finds under the prefix, in the same order: also one at a leaf's border, at
\* a separator that Find misses, or behind leaves that erasures emptied.
PrefixScanExact ==
  call = Idle /\ WellLinked =>
    \A p \in PathPrefixes :
      PrefixScanCollect(p) = SelectSeq(ScanAll, LAMBDA e : StartsWith(p, e))

\* ScanAll calls the visitor "for every entry in ascending key order"
\* (btree.h:165), whatever the nodes look like.
ScanAscending ==
  call = Idle =>
    LET s == ScanAll IN \A i \in 1 .. Len(s) - 1 : s[i][1] <= s[i + 1][1]

\* Serialise writes every entry: as many as size_ counts, the "number of files
\* in catalog" (metadata.h:157) that a reader compares with what it reads.
SerialisedWhole == call = Idle => Len(Serialise) = size

\* Exact-match lookup (catalog.h:60), insert or overwrite (catalog.h:46).
FindIsExact == call = Idle => \A k \in DOMAIN last : Find(k) = last[k]
=============================================================================
