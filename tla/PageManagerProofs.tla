-------------------------- MODULE PageManagerProofs --------------------------
(***************************************************************************)
(* Proofs about PageManager, for words and bytes of any width: PageCount   *)
(* covers every page in use, and the bitmap is a set of ids from which the *)
(* lowest free one is handed out, which reading back what was written      *)
(* does not change.                                                        *)
(***************************************************************************)
EXTENDS PageManager, TLAPS

-----------------------------------------------------------------------------
(* Division.                                                                *)

\* What a quotient and a remainder are, with names of their own.
LEMMA QuotientRemainder ==
    ASSUME NEW a \in Int, NEW m \in Int, m > 0, NEW q \in Int, NEW r \in Int,
           q = a \div m, r = a % m
    PROVE  a = q * m + r
OBVIOUS

\* Quotient and remainder of a natural number.
LEMMA DivMod ==
    ASSUME NEW a \in Nat, NEW m \in Nat \ {0}
    PROVE  /\ a \div m \in Nat /\ a % m \in 0 .. m - 1
           /\ a = (a \div m) * m + (a % m)
<1>1. a \div m \in Int /\ a \div m >= 0 /\ a % m \in 0 .. m - 1
  OBVIOUS
<1> DEFINE q == a \div m  r == a % m
<1>2. q \in Int /\ r \in Int /\ q = a \div m /\ r = a % m
  BY <1>1
<1> HIDE DEF q, r
<1>3. a = q * m + r
  BY <1>2, QuotientRemainder
<1> QED BY <1>1, <1>3 DEF q, r

\* They are the only ones.
LEMMA DivUnique ==
    ASSUME NEW q \in Nat, NEW m \in Nat \ {0}, NEW r \in 0 .. m - 1
    PROVE  (q * m + r) \div m = q /\ (q * m + r) % m = r
OBVIOUS

\* Numbers are ordered by their quotients first.
LEMMA DivOrder ==
    ASSUME NEW m \in Nat \ {0}, NEW q \in Nat, NEW p \in Nat,
           NEW r \in 0 .. m - 1, NEW s \in 0 .. m - 1
    PROVE  /\ q < p => q * m + r < p * m
           /\ q * m + r < p * m + s => q < p \/ (q = p /\ r < s)
OBVIOUS

\* A product of factors in their ranges.
LEMMA ProductMonotone ==
    ASSUME NEW m \in Nat, NEW q \in Nat, NEW p \in Nat, q <= p
    PROVE  q * m \in Nat /\ q * m <= p * m
OBVIOUS

\* Words have bits.
LEMMA WordBitsPositive == WordBits \in Nat \ {0}
BY WidthAssumption DEF WidthAssumption, WordBits

-----------------------------------------------------------------------------
(* Ids, words and bits.                                                     *)

\* Page ids are pairs of a word and a bit.
LEMMA IdParts ==
    ASSUME NEW w \in Nat \ {0}, NEW bit \in Bits
    PROVE  /\ Id(w, bit) \in Nat /\ WordOf(Id(w, bit)) = w /\ BitOf(Id(w, bit)) = bit
           /\ Id(w, bit) < w * WordBits
<1> DEFINE m == WordBits
<1>1. m \in Nat \ {0} /\ w - 1 \in Nat /\ bit \in 0 .. m - 1
  BY WordBitsPositive DEF Bits
<1> HIDE DEF m
<1>2. ((w - 1) * m + bit) \div m = w - 1 /\ ((w - 1) * m + bit) % m = bit
  BY <1>1, DivUnique
<1>3. (w - 1) * m + bit < w * m /\ (w - 1) * m + bit \in Nat
  BY <1>1, DivOrder
<1> QED BY <1>1, <1>2, <1>3 DEF Id, WordOf, BitOf, m

LEMMA PartsOfId ==
    ASSUME NEW id \in Nat
    PROVE  /\ WordOf(id) \in Nat \ {0} /\ BitOf(id) \in Bits
           /\ Id(WordOf(id), BitOf(id)) = id
<1> DEFINE m == WordBits
<1>1. m \in Nat \ {0}
  BY WordBitsPositive
<1> HIDE DEF m
<1>2. id \div m \in Nat /\ id % m \in 0 .. m - 1 /\ id = (id \div m) * m + (id % m)
  BY <1>1, DivMod
<1>3. (id \div m + 1) - 1 = id \div m
  BY <1>2
<1> QED BY <1>2, <1>3 DEF Id, WordOf, BitOf, Bits, m

\* Ids are in the order of their words, and of their bits within a word.
LEMMA IdOrder ==
    ASSUME NEW w \in Nat \ {0}, NEW v \in Nat \ {0}, NEW bit \in Bits, NEW b \in Bits,
           Id(w, bit) < Id(v, b)
    PROVE  w < v \/ (w = v /\ bit < b)
<1> DEFINE m == WordBits
<1>1. m \in Nat \ {0} /\ w - 1 \in Nat /\ v - 1 \in Nat /\ bit \in 0 .. m - 1 /\ b \in 0 .. m - 1
  BY WordBitsPositive DEF Bits
<1> HIDE DEF m
<1>2. (w - 1) * m + bit < (v - 1) * m + b
  BY DEF Id, m
<1>3. w - 1 < v - 1 \/ (w - 1 = v - 1 /\ bit < b)
  BY <1>1, <1>2, DivOrder
<1> QED BY <1>1, <1>3

\* The ids of the words there are.
LEMMA IdWithin ==
    ASSUME NEW id \in Nat, NEW n \in Nat
    PROVE  WordOf(id) <= n <=> id < n * WordBits
<1> DEFINE m == WordBits  w == WordOf(id)  bit == BitOf(id)
<1>1. m \in Nat \ {0} /\ w \in Nat \ {0} /\ bit \in 0 .. m - 1 /\ id = (w - 1) * m + bit
  BY WordBitsPositive, PartsOfId DEF Bits, Id
<1> HIDE DEF m, w, bit
<1>2. CASE w <= n
  <2>1. w - 1 \in Nat /\ w - 1 < n
    BY <1>1, <1>2
  <2>2. (w - 1) * m + bit < n * m
    BY <1>1, <2>1, DivOrder
  <2> QED BY <1>1, <1>2, <2>2 DEF m, w
<1>3. CASE n < w
  <2>1. w - 1 \in Nat /\ n <= w - 1
    BY <1>1, <1>3
  <2>2. n * m <= (w - 1) * m /\ n * m \in Nat /\ (w - 1) * m \in Nat
    BY <1>1, <2>1, ProductMonotone
  <2>3. ~(id < n * m)
    BY <1>1, <2>2
  <2> QED BY <1>1, <1>3, <2>3 DEF m, w
<1> QED BY <1>1, <1>2, <1>3

-----------------------------------------------------------------------------
(* Bitmaps.                                                                 *)

\* id is in use in the bitmap words.
Used(words, id) == WordOf(id) <= Len(words) /\ BitOf(id) \in words[WordOf(id)]

\* A function from an interval is a sequence.
LEMMA IntervalIsSeq ==
    ASSUME NEW S, NEW n \in Nat, NEW s, DOMAIN s = 1 .. n, s = [i \in 1 .. n |-> s[i]],
           \A i \in 1 .. n : s[i] \in S
    PROVE  s \in Seq(S) /\ Len(s) = n
OBVIOUS

\* The words of a bitmap.
LEMMA BitmapWords ==
    ASSUME NEW b \in Seq(Word)
    PROVE  /\ Len(b) \in Nat /\ DOMAIN b = 1 .. Len(b) /\ b = [w \in 1 .. Len(b) |-> b[w]]
           /\ \A w \in 1 .. Len(b) : b[w] \in Word /\ b[w] \subseteq Bits
BY DEF Word

\* One word of a bitmap replaced.
LEMMA WordReplaced ==
    ASSUME NEW b \in Seq(Word), NEW w \in 1 .. Len(b), NEW x \in Word
    PROVE  /\ [b EXCEPT ![w] = x] \in Seq(Word) /\ Len([b EXCEPT ![w] = x]) = Len(b)
           /\ \A v \in 1 .. Len(b) : [b EXCEPT ![w] = x][v] = IF v = w THEN x ELSE b[v]
OBVIOUS

\* The words of the ids there may be.
LEMMA IdsWithin == \A id : id \in Ids <=> id \in Nat /\ WordOf(id) <= MaxWords
<1>1. MaxWords \in Nat /\ WordBits \in Nat /\ MaxWords * WordBits \in Nat
  BY WordsAssumption, WordBitsPositive DEF WordsAssumption
<1>2. \A id : id \in Ids <=> id \in Nat /\ id < MaxWords * WordBits
  BY <1>1 DEF Ids
<1> QED BY <1>1, <1>2, IdWithin

\* The capacity is rounded up to the word of the id, with clear bits.
LEMMA CapacityFor ==
    ASSUME NEW id \in Nat, bitmap \in Seq(Word)
    PROVE  /\ EnsureCapacity(id + 1) \in Seq(Word)
           /\ Len(EnsureCapacity(id + 1)) = Larger(WordOf(id), Len(bitmap))
           /\ \A w \in 1 .. Larger(WordOf(id), Len(bitmap)) :
                EnsureCapacity(id + 1)[w] = IF w <= Len(bitmap) THEN bitmap[w] ELSE {}
<1> DEFINE m == WordBits
           n == Larger(WordOf(id), Len(bitmap))
           c == EnsureCapacity(id + 1)
<1>1. (id + 1 + m - 1) \div m = WordOf(id)
  <2> DEFINE q == id \div m  r == id % m
  <2>1. m \in Nat \ {0}
    BY WordBitsPositive
  <2>2. WordOf(id) = q + 1
    BY DEF WordOf
  <2> HIDE DEF m
  <2>3. q \in Nat /\ r \in 0 .. m - 1 /\ id = q * m + r
    BY <2>1, DivMod
  <2> HIDE DEF q, r
  <2>4. id + 1 + m - 1 = (q + 1) * m + r
    BY <2>1, <2>3
  <2>5. ((q + 1) * m + r) \div m = q + 1
    BY <2>1, <2>3, DivUnique
  <2> QED BY <2>2, <2>4, <2>5
<1>2. n \in Nat /\ Len(bitmap) \in Nat
  BY PartsOfId, BitmapWords DEF Larger
<1>3. c = [w \in 1 .. n |-> IF w <= Len(bitmap) THEN bitmap[w] ELSE {}]
  BY <1>1 DEF EnsureCapacity
<1> HIDE DEF c, n
<1>4. \A w \in 1 .. n : c[w] = (IF w <= Len(bitmap) THEN bitmap[w] ELSE {}) /\ c[w] \in Word
  BY <1>2, <1>3, BitmapWords DEF Word
<1>5. DOMAIN c = 1 .. n /\ c = [w \in 1 .. n |-> c[w]]
  BY <1>3
<1>6. c \in Seq(Word) /\ Len(c) = n
  BY <1>2, <1>4, <1>5, IntervalIsSeq
<1> QED BY <1>4, <1>6 DEF c, n

\* Deserialise gives back what was serialised, for bytes and words of any
\* width.
LEMMA RoundTrip ==
    ASSUME NEW b \in Seq(Word)
    PROVE  Deserialise(Serialise(b)) = b
<1> DEFINE n == Len(b)
           data == Serialise(b)
           out == Deserialise(data)
<1>0. n \in Nat /\ ByteBits \in Nat \ {0} /\ WordBytes \in Nat \ {0}
  BY BitmapWords, WidthAssumption DEF WidthAssumption
<1>1. n * WordBytes \in Nat /\ (n * WordBytes) \div WordBytes = n
  <2>1. n * WordBytes \in Nat /\ 0 \in 0 .. WordBytes - 1 /\ n * WordBytes + 0 = n * WordBytes
    BY <1>0
  <2> HIDE DEF n
  <2>2. (n * WordBytes + 0) \div WordBytes = n
    BY <1>0, <2>1, DivUnique
  <2> QED BY <2>1, <2>2
<1>2. /\ Len(data) = n * WordBytes
      /\ \A i \in 1 .. n * WordBytes :
           data[i] = {x \in 0 .. ByteBits - 1 :
                        ((i - 1) % WordBytes) * ByteBits + x \in b[(i - 1) \div WordBytes + 1]}
  <2> DEFINE k == n * WordBytes
             byte(i) == {x \in 0 .. ByteBits - 1 :
                          ((i - 1) % WordBytes) * ByteBits + x \in b[(i - 1) \div WordBytes + 1]}
  <2>1. data = [i \in 1 .. k |-> byte(i)]
    BY DEF Serialise
  <2>2. k \in Nat
    BY <1>1
  <2> HIDE DEF data, byte, k
  <2>3. Len(data) = k /\ \A i \in 1 .. k : data[i] = byte(i)
    BY <2>1, <2>2
  <2> QED BY <2>3 DEF byte, k
<1>3. out = [w \in 1 .. n |->
               {bit \in Bits :
                  bit % ByteBits \in data[(w - 1) * WordBytes + bit \div ByteBits + 1]}]
  BY <1>1, <1>2 DEF Deserialise
<1> HIDE DEF data, out
<1>4. ASSUME NEW w \in 1 .. n, NEW bit \in Bits
      PROVE  bit % ByteBits \in data[(w - 1) * WordBytes + bit \div ByteBits + 1]
               <=> bit \in b[w]
  <2> DEFINE q == bit \div ByteBits
             r == bit % ByteBits
             i == (w - 1) * WordBytes + q + 1
  <2>0. bit \in Nat
    BY WordBitsPositive DEF Bits
  <2>1. q \in Nat /\ r \in 0 .. ByteBits - 1 /\ bit = q * ByteBits + r
    BY <1>0, <2>0, DivMod
  <2> HIDE DEF q, r
  <2>2. q < WordBytes
    <3> SUFFICES ASSUME WordBytes <= q PROVE FALSE
      BY <1>0, <2>1
    <3>1. WordBytes * ByteBits <= q * ByteBits
      BY <1>0, <2>1, ProductMonotone
    <3>2. bit < ByteBits * WordBytes /\ ByteBits * WordBytes = WordBytes * ByteBits
      BY <1>0 DEF Bits, WordBits
    <3> QED BY <1>0, <2>1, <3>1, <3>2
  <2>3. w - 1 \in Nat /\ w - 1 < n /\ q \in 0 .. WordBytes - 1
    BY <1>0, <2>1, <2>2
  <2>4. (w - 1) * WordBytes + q < n * WordBytes /\ (w - 1) * WordBytes + q \in Nat
    BY <1>0, <2>3, DivOrder
  <2>5. i \in 1 .. n * WordBytes /\ i - 1 = (w - 1) * WordBytes + q
    BY <1>1, <2>4, <2>3, <1>0
  <2>6. (i - 1) \div WordBytes = w - 1 /\ (i - 1) % WordBytes = q
    <3> HIDE DEF i
    <3>1. /\ ((w - 1) * WordBytes + q) \div WordBytes = w - 1
          /\ ((w - 1) * WordBytes + q) % WordBytes = q
      BY <1>0, <2>3, DivUnique
    <3> QED BY <3>1, <2>5
  <2> HIDE DEF i
  <2>7. data[i] = {x \in 0 .. ByteBits - 1 : q * ByteBits + x \in b[(w - 1) + 1]}
    BY <1>2, <2>5, <2>6
  <2>8. (w - 1) + 1 = w
    BY <1>0
  <2>9. r \in data[i] <=> bit \in b[w]
    BY <2>1, <2>7, <2>8
  <2> QED BY <2>9 DEF r, i, q
<1>5. \A w \in 1 .. n : b[w] \subseteq Bits
  BY BitmapWords
<1>6. out = [w \in 1 .. n |-> b[w]]
  <2>1. \A w \in 1 .. n :
          {bit \in Bits : bit % ByteBits \in data[(w - 1) * WordBytes + bit \div ByteBits + 1]}
            = b[w]
    BY <1>4, <1>5
  <2> QED BY <1>3, <2>1
<1> QED BY <1>6, BitmapWords DEF n, out, data

\* The bits of the ids in use after a word was replaced.
LEMMA UsedReplaced ==
    ASSUME NEW b \in Seq(Word), NEW w \in 1 .. Len(b), NEW x \in Word, NEW id \in Nat
    PROVE  Used([b EXCEPT ![w] = x], id)
             <=> IF WordOf(id) = w THEN BitOf(id) \in x ELSE Used(b, id)
<1> DEFINE c == [b EXCEPT ![w] = x]
<1>1. Len(c) = Len(b) /\ \A v \in 1 .. Len(b) : c[v] = IF v = w THEN x ELSE b[v]
  BY WordReplaced
<1>2. WordOf(id) \in Nat \ {0} /\ Len(b) \in Nat
  BY PartsOfId, BitmapWords
<1> HIDE DEF c
<1>3. Used(c, id) <=> IF WordOf(id) = w THEN BitOf(id) \in x ELSE Used(b, id)
  BY <1>1, <1>2 DEF Used
<1> QED BY <1>3 DEF c

-----------------------------------------------------------------------------
(* The invariant: the types and PageCountCovers, and what an action makes   *)
(* of the ids in use.                                                       *)

CInv == TypeOK /\ PageCountCovers

\* PageCountCovers of a bitmap and a count.
Covers(words, n) ==
  /\ \A w \in 1 .. Len(words) : \A bit \in words[w] : Id(w, bit) < n
  /\ n <= Len(words) * WordBits

\* The same, said of ids.
LEMMA CoversIds ==
    ASSUME NEW words \in Seq(Word), NEW n \in Nat
    PROVE  Covers(words, n) <=>
             /\ \A id \in Nat : Used(words, id) => id < n
             /\ n <= Len(words) * WordBits
<1>1. Len(words) \in Nat /\ \A w \in 1 .. Len(words) : words[w] \subseteq Bits
  BY BitmapWords
<1>2. ASSUME \A w \in 1 .. Len(words) : \A bit \in words[w] : Id(w, bit) < n,
             NEW id \in Nat, Used(words, id)
      PROVE  id < n
  <2>1. WordOf(id) \in 1 .. Len(words) /\ BitOf(id) \in words[WordOf(id)]
    BY <1>1, <1>2, PartsOfId DEF Used
  <2>2. Id(WordOf(id), BitOf(id)) < n
    BY <1>2, <2>1
  <2> QED BY <2>2, PartsOfId
<1>3. ASSUME \A id \in Nat : Used(words, id) => id < n,
             NEW w \in 1 .. Len(words), NEW bit \in words[w]
      PROVE  Id(w, bit) < n
  <2>1. w \in Nat \ {0} /\ bit \in Bits /\ w <= Len(words)
    BY <1>1
  <2>2. Id(w, bit) \in Nat /\ WordOf(Id(w, bit)) = w /\ BitOf(Id(w, bit)) = bit
    BY <2>1, IdParts
  <2>3. Used(words, Id(w, bit))
    BY <2>1, <2>2 DEF Used
  <2> QED BY <1>3, <2>2, <2>3
<1> QED BY <1>2, <1>3 DEF Covers

\* PageCountCovers, before and after a step.
LEMMA PageCountCoversIs ==
    /\ PageCountCovers <=> Covers(bitmap, page_count)
    /\ PageCountCovers' <=> Covers(bitmap', page_count')
BY DEF PageCountCovers, Covers

\* A page in use more, at or behind the end or in a gap.
LEMMA CountRaised ==
    ASSUME CInv, TypeOK', NEW id \in Nat, Len(bitmap) <= Len(bitmap'),
           \A j \in Nat : Used(bitmap', j) => Used(bitmap, j) \/ j = id,
           Used(bitmap', id), page_count' = Larger(page_count, id + 1)
    PROVE  PageCountCovers'
<1>1. /\ bitmap \in Seq(Word) /\ bitmap' \in Seq(Word) /\ page_count \in Nat /\ page_count' \in Nat
      /\ Len(bitmap) \in Nat /\ Len(bitmap') \in Nat /\ WordBits \in Nat
  BY BitmapWords, WordBitsPositive DEF CInv, TypeOK
<1>2. /\ \A j \in Nat : Used(bitmap, j) => j < page_count
      /\ page_count <= Len(bitmap) * WordBits
  BY <1>1, CoversIds, PageCountCoversIs DEF CInv
<1>3. \A j \in Nat : Used(bitmap', j) => j < page_count'
  BY <1>1, <1>2 DEF Larger
<1>4. id < Len(bitmap') * WordBits
  BY <1>1, IdWithin DEF Used
<1>5. /\ Len(bitmap) * WordBits <= Len(bitmap') * WordBits
      /\ Len(bitmap) * WordBits \in Nat /\ Len(bitmap') * WordBits \in Nat
  BY <1>1, ProductMonotone
<1>6. page_count' <= Len(bitmap') * WordBits
  BY <1>1, <1>2, <1>4, <1>5 DEF Larger
<1> QED BY <1>1, <1>3, <1>6, CoversIds, PageCountCoversIs

\* A bit of a word that is not full.
LEMMA AllocateBitStep ==
    ASSUME CInv, NEW w \in 1 .. Len(bitmap), NEW bit \in Bits, AllocateBit(w, bit)
    PROVE  /\ CInv'
           /\ Id(w, bit) \in Ids /\ ~IsAllocated(Id(w, bit))
           /\ \A j \in Nat : j < Id(w, bit) => IsAllocated(j)
           /\ \A j \in Nat : IsAllocated(j)' <=> IsAllocated(j) \/ j = Id(w, bit)
<1> DEFINE id == Id(w, bit)
<1>0. /\ bitmap \in Seq(Word) /\ Len(bitmap) \in Nat /\ Len(bitmap) <= MaxWords
      /\ page_count \in Nat /\ MaxWords \in Nat /\ w \in Nat \ {0} /\ bitmap[w] \in Word
  BY BitmapWords, WordsAssumption DEF CInv, TypeOK, WordsAssumption
<1>1. id \in Nat /\ WordOf(id) = w /\ BitOf(id) = bit
  BY <1>0, IdParts
<1> HIDE DEF id
<1>2. /\ \A v \in 1 .. w - 1 : bitmap[v] = Bits
      /\ bit \notin bitmap[w] /\ 0 .. bit - 1 \subseteq bitmap[w]
      /\ bitmap' = [bitmap EXCEPT ![w] = bitmap[w] \cup {bit}]
      /\ page_count' = Larger(page_count, id + 1) /\ result' = id
  BY DEF AllocateBit, FirstClear, id
<1>3. id \in Ids
  BY <1>0, <1>1, IdsWithin
<1>4. ~IsAllocated(id)
  BY <1>1, <1>2 DEF IsAllocated
<1>5. \A j \in Nat : j < id => IsAllocated(j)
  <2> TAKE j \in Nat
  <2> HAVE j < id
  <2>1. /\ WordOf(j) \in Nat \ {0} /\ BitOf(j) \in Bits
        /\ WordOf(j) < w \/ (WordOf(j) = w /\ BitOf(j) < bit)
    <3>1. WordOf(j) \in Nat \ {0} /\ BitOf(j) \in Bits /\ Id(WordOf(j), BitOf(j)) = j
      BY PartsOfId
    <3>2. Id(WordOf(j), BitOf(j)) < Id(w, bit)
      BY <3>1 DEF id
    <3> QED BY <1>0, <3>1, <3>2, IdOrder
  <2>2. CASE WordOf(j) < w
    <3>1. WordOf(j) \in 1 .. w - 1 /\ WordOf(j) <= Len(bitmap)
      BY <1>0, <2>1, <2>2
    <3> QED BY <1>2, <2>1, <3>1 DEF IsAllocated
  <2>3. CASE WordOf(j) = w /\ BitOf(j) < bit
    <3>1. BitOf(j) \in 0 .. bit - 1
      BY <2>1, <2>3, WordBitsPositive DEF Bits
    <3> QED BY <1>0, <1>2, <2>3, <3>1 DEF IsAllocated
  <2> QED BY <2>1, <2>2, <2>3
<1>6. bitmap[w] \cup {bit} \in Word
  BY <1>0 DEF Word
<1>7. \A j \in Nat : Used(bitmap', j) <=> Used(bitmap, j) \/ j = id
  <2> TAKE j \in Nat
  <2>1. Used(bitmap', j)
          <=> IF WordOf(j) = w THEN BitOf(j) \in bitmap[w] \cup {bit} ELSE Used(bitmap, j)
    BY <1>0, <1>2, <1>6, UsedReplaced
  <2>2. WordOf(j) = w /\ BitOf(j) = bit => j = id
    BY PartsOfId DEF id
  <2> QED BY <1>0, <1>1, <2>1, <2>2 DEF Used
<1>8. TypeOK'
  <2>1. bitmap' \in Seq(Word) /\ Len(bitmap') = Len(bitmap)
    BY <1>0, <1>2, <1>6, WordReplaced
  <2> QED BY <1>0, <1>1, <1>2, <1>3, <2>1 DEF TypeOK, Larger
<1>9. PageCountCovers'
  <2>1. Len(bitmap) <= Len(bitmap')
    BY <1>0, <1>2, <1>6, WordReplaced
  <2>2. Used(bitmap', id)
    BY <1>1, <1>7
  <2> QED BY <1>1, <1>2, <1>7, <1>8, <2>1, <2>2, CountRaised
<1>10. \A j \in Nat : IsAllocated(j)' <=> IsAllocated(j) \/ j = id
  BY <1>7 DEF IsAllocated, Used
<1> QED BY <1>3, <1>4, <1>5, <1>8, <1>9, <1>10 DEF CInv, id

\* A word more, when all are full.
LEMMA AllocateWordStep ==
    ASSUME CInv, AllocateWord
    PROVE  /\ CInv'
           /\ result' \in Ids /\ ~IsAllocated(result')
           /\ \A j \in Nat : j < result' => IsAllocated(j)
           /\ \A j \in Nat : IsAllocated(j)' <=> IsAllocated(j) \/ j = result'
<1> DEFINE w == Len(bitmap) + 1
           id == Id(w, 0)
<1>0. /\ bitmap \in Seq(Word) /\ Len(bitmap) \in Nat /\ Len(bitmap) < MaxWords
      /\ page_count \in Nat /\ MaxWords \in Nat /\ 0 \in Bits /\ {0} \in Word
      /\ page_count <= Len(bitmap) * WordBits
  BY BitmapWords, WordsAssumption, WordBitsPositive
     DEF CInv, TypeOK, PageCountCovers, AllocateWord, WordsAssumption, Bits, Word
<1>1. id \in Nat /\ WordOf(id) = w /\ BitOf(id) = 0
  BY <1>0, IdParts
<1>2. /\ \A v \in 1 .. Len(bitmap) : bitmap[v] = Bits
      /\ bitmap' = Append(bitmap, {0}) /\ page_count' = id + 1 /\ result' = id
  BY DEF AllocateWord
<1>3. /\ bitmap' \in Seq(Word) /\ Len(bitmap') = w /\ bitmap'[w] = {0}
      /\ \A v \in 1 .. Len(bitmap) : bitmap'[v] = bitmap[v]
  BY <1>0, <1>2
<1>4. id = Len(bitmap) * WordBits
  BY <1>0, WordBitsPositive DEF Id
<1> HIDE DEF id
<1>5. id \in Ids
  BY <1>0, <1>1, IdsWithin
<1>6. ~IsAllocated(id)
  BY <1>0, <1>1 DEF IsAllocated
<1>7. \A j \in Nat : j < id => IsAllocated(j)
  <2> TAKE j \in Nat
  <2> HAVE j < id
  <2>1. WordOf(j) <= Len(bitmap) /\ WordOf(j) \in Nat \ {0} /\ BitOf(j) \in Bits
    BY <1>0, <1>4, IdWithin, PartsOfId
  <2> QED BY <1>2, <2>1 DEF IsAllocated
<1>8. \A j \in Nat : Used(bitmap', j) <=> Used(bitmap, j) \/ j = id
  <2> TAKE j \in Nat
  <2>1. WordOf(j) \in Nat \ {0} /\ (WordOf(j) = w /\ BitOf(j) = 0 => j = id)
    BY PartsOfId DEF id
  <2>2. CASE WordOf(j) = w
    BY <1>0, <1>1, <1>3, <2>1, <2>2 DEF Used
  <2>3. CASE WordOf(j) # w
    <3>1. WordOf(j) <= w <=> WordOf(j) <= Len(bitmap)
      BY <1>0, <2>1, <2>3
    <3> QED BY <1>0, <1>1, <1>3, <2>1, <2>3, <3>1 DEF Used
  <2> QED BY <2>2, <2>3
<1>9. page_count' = Larger(page_count, id + 1)
  BY <1>0, <1>1, <1>2, <1>4 DEF Larger
<1>10. TypeOK'
  BY <1>0, <1>1, <1>2, <1>3, <1>5 DEF TypeOK
<1>11. PageCountCovers'
  BY <1>0, <1>1, <1>3, <1>8, <1>9, <1>10, CountRaised
<1>12. \A j \in Nat : IsAllocated(j)' <=> IsAllocated(j) \/ j = id
  BY <1>8 DEF IsAllocated, Used
<1> QED BY <1>2, <1>5, <1>6, <1>7, <1>10, <1>11, <1>12 DEF CInv

\* A page at a given place.
LEMMA AllocateAtStep ==
    ASSUME CInv, NEW id \in Ids, AllocateAt(id)
    PROVE  /\ CInv'
           /\ ~IsAllocated(id) /\ result' = None
           /\ \A j \in Nat : IsAllocated(j)' <=> IsAllocated(j) \/ j = id
<1> DEFINE w == WordOf(id)
           bit == BitOf(id)
           c == EnsureCapacity(id + 1)
           x == c[w] \cup {bit}
<1>0. /\ bitmap \in Seq(Word) /\ Len(bitmap) \in Nat /\ Len(bitmap) <= MaxWords
      /\ page_count \in Nat /\ MaxWords \in Nat /\ id \in Nat
      /\ w \in Nat \ {0} /\ w <= MaxWords /\ bit \in Bits
  BY BitmapWords, WordsAssumption, IdsWithin, PartsOfId DEF CInv, TypeOK, WordsAssumption
<1>1. /\ c \in Seq(Word) /\ Len(c) = Larger(w, Len(bitmap))
      /\ \A v \in 1 .. Larger(w, Len(bitmap)) :
           c[v] = IF v <= Len(bitmap) THEN bitmap[v] ELSE {}
  BY <1>0, CapacityFor
<1>2. /\ ~IsAllocated(id) /\ bitmap' = [c EXCEPT ![w] = x]
      /\ page_count' = Larger(page_count, id + 1) /\ result' = None
  BY DEF AllocateAt
<1> HIDE DEF c, w, bit
<1>3. w \in 1 .. Len(c) /\ Len(bitmap) <= Len(c) /\ Len(c) \in Nat /\ Len(c) <= MaxWords
  BY <1>0, <1>1 DEF Larger
<1>4. x \in Word
  BY <1>0, <1>1, <1>3, BitmapWords DEF Word
<1> HIDE DEF x
<1>5. bitmap' \in Seq(Word) /\ Len(bitmap') = Len(c)
  BY <1>1, <1>2, <1>3, <1>4, WordReplaced
<1>6. \A j \in Nat : Used(c, j) <=> Used(bitmap, j)
  <2> TAKE j \in Nat
  <2>1. WordOf(j) \in Nat \ {0}
    BY PartsOfId
  <2>2. CASE WordOf(j) <= Len(bitmap)
    BY <1>0, <1>1, <1>3, <2>1, <2>2 DEF Used, Larger
  <2>3. CASE ~(WordOf(j) <= Len(bitmap)) /\ WordOf(j) <= Len(c)
    <3>1. WordOf(j) \in 1 .. Larger(w, Len(bitmap))
      BY <1>1, <1>3, <2>1, <2>3
    <3> QED BY <1>1, <2>3, <3>1 DEF Used
  <2>4. CASE ~(WordOf(j) <= Len(bitmap)) /\ ~(WordOf(j) <= Len(c))
    BY <2>4 DEF Used
  <2> QED BY <2>2, <2>3, <2>4
<1>7. \A j \in Nat : Used(bitmap', j) <=> Used(bitmap, j) \/ j = id
  <2> TAKE j \in Nat
  <2>1. Used(bitmap', j) <=> IF WordOf(j) = w THEN BitOf(j) \in x ELSE Used(c, j)
    BY <1>1, <1>2, <1>3, <1>4, UsedReplaced
  <2>2. /\ WordOf(j) = w /\ BitOf(j) = bit => j = id
        /\ j = id => WordOf(j) = w /\ BitOf(j) = bit
    BY <1>0, PartsOfId DEF w, bit
  <2>3. WordOf(j) = w => (BitOf(j) \in c[w] <=> Used(c, j))
    BY <1>3 DEF Used
  <2>4. BitOf(j) \in x <=> BitOf(j) \in c[w] \/ BitOf(j) = bit
    BY DEF x
  <2> QED BY <1>6, <2>1, <2>2, <2>3, <2>4
<1>8. TypeOK'
  BY <1>0, <1>2, <1>3, <1>5 DEF TypeOK, Larger
<1>9. Len(bitmap) <= Len(bitmap') /\ Used(bitmap', id)
  BY <1>0, <1>3, <1>5, <1>7
<1>10. PageCountCovers'
  BY <1>0, <1>2, <1>7, <1>8, <1>9, CountRaised
<1>11. \A j \in Nat : IsAllocated(j)' <=> IsAllocated(j) \/ j = id
  BY <1>7 DEF IsAllocated, Used
<1> QED BY <1>2, <1>8, <1>10, <1>11 DEF CInv

\* An id that is given back; one beyond the bitmap was not in use.
LEMMA FreeStep ==
    ASSUME CInv, NEW id \in Ids, Free(id)
    PROVE  /\ CInv' /\ result' = None
           /\ \A j \in Nat : IsAllocated(j)' <=> IsAllocated(j) /\ j # id
<1> DEFINE w == WordOf(id)
           bit == BitOf(id)
<1>0. /\ bitmap \in Seq(Word) /\ Len(bitmap) \in Nat /\ Len(bitmap) <= MaxWords
      /\ page_count \in Nat /\ id \in Nat
      /\ w \in Nat \ {0} /\ bit \in Bits
  BY BitmapWords, IdsWithin, PartsOfId DEF CInv, TypeOK
<1>1. /\ bitmap' = IF w <= Len(bitmap) THEN [bitmap EXCEPT ![w] = bitmap[w] \ {bit}] ELSE bitmap
      /\ result' = None /\ page_count' = page_count
  BY DEF Free
<1>2. \A j \in Nat : (WordOf(j) = w /\ BitOf(j) = bit) <=> j = id
  BY <1>0, PartsOfId
<1> HIDE DEF w, bit
<1>3. /\ bitmap' \in Seq(Word) /\ Len(bitmap') = Len(bitmap)
      /\ \A j \in Nat : Used(bitmap', j) <=> Used(bitmap, j) /\ j # id
  <2>1. CASE w <= Len(bitmap)
    <3> DEFINE x == bitmap[w] \ {bit}
    <3>1. w \in 1 .. Len(bitmap) /\ bitmap[w] \in Word /\ bitmap' = [bitmap EXCEPT ![w] = x]
      BY <1>0, <1>1, <2>1, BitmapWords
    <3>2. x \in Word
      BY <3>1 DEF Word
    <3>3. bitmap' \in Seq(Word) /\ Len(bitmap') = Len(bitmap)
      BY <1>0, <3>1, <3>2, WordReplaced
    <3>4. ASSUME NEW j \in Nat PROVE Used(bitmap', j) <=> Used(bitmap, j) /\ j # id
      <4> HIDE DEF x
      <4>1. Used(bitmap', j) <=> IF WordOf(j) = w THEN BitOf(j) \in x ELSE Used(bitmap, j)
        BY <1>0, <3>1, <3>2, UsedReplaced
      <4>2. WordOf(j) = w => (BitOf(j) \in bitmap[w] <=> Used(bitmap, j))
        BY <2>1 DEF Used
      <4>3. BitOf(j) \in x <=> BitOf(j) \in bitmap[w] /\ BitOf(j) # bit
        BY DEF x
      <4> QED BY <1>2, <4>1, <4>2, <4>3
    <3> QED BY <3>3, <3>4
  <2>2. CASE ~(w <= Len(bitmap))
    <3>1. bitmap' = bitmap
      BY <1>1, <2>2
    <3>2. ~Used(bitmap, id)
      BY <2>2 DEF Used, w
    <3> QED BY <1>0, <3>1, <3>2
  <2> QED BY <2>1, <2>2
<1>4. TypeOK'
  BY <1>0, <1>1, <1>3 DEF TypeOK
<1>5. Covers(bitmap, page_count)
  BY PageCountCoversIs DEF CInv
<1>6. Covers(bitmap', page_count')
  BY <1>0, <1>1, <1>3, <1>5, CoversIds
<1>7. \A j \in Nat : IsAllocated(j)' <=> IsAllocated(j) /\ j # id
  BY <1>3 DEF IsAllocated, Used
<1> QED BY <1>1, <1>4, <1>6, <1>7, PageCountCoversIs DEF CInv

\* What is read back is the bitmap that was written, and the count is that of
\* its last bit.
LEMMA ReloadStep ==
    ASSUME CInv, Reload
    PROVE  CInv' /\ UNCHANGED <<bitmap, result>>
<1>0. bitmap \in Seq(Word) /\ Len(bitmap) \in Nat
  BY BitmapWords DEF CInv, TypeOK
<1> DEFINE used == {w \in 1 .. Len(bitmap) : bitmap[w] # {}}
<1>1. /\ UNCHANGED <<bitmap, result>>
      /\ \/ used = {} /\ page_count' = 0
         \/ \E w \in used : \E bit \in bitmap[w] :
              /\ \A v \in used : v <= w
              /\ \A b \in bitmap[w] : b <= bit
              /\ page_count' = Id(w, bit) + 1
  BY <1>0, RoundTrip DEF Reload
<1>2. page_count' \in Nat /\ Covers(bitmap, page_count')
  <2>1. CASE used = {} /\ page_count' = 0
    <3>1. \A w \in 1 .. Len(bitmap) : bitmap[w] = {}
      BY <2>1
    <3>2. 0 <= Len(bitmap) * WordBits
      BY <1>0, WordBitsPositive, ProductMonotone
    <3> QED BY <2>1, <3>1, <3>2 DEF Covers
  <2>2. CASE \E w \in used : \E bit \in bitmap[w] :
               /\ \A v \in used : v <= w
               /\ \A b \in bitmap[w] : b <= bit
               /\ page_count' = Id(w, bit) + 1
    <3>0. PICK w \in 1 .. Len(bitmap) :
            \E bit \in bitmap[w] :
              /\ \A v \in used : v <= w
              /\ \A b \in bitmap[w] : b <= bit
              /\ page_count' = Id(w, bit) + 1
      BY <2>2
    <3>1. PICK bit \in bitmap[w] :
            /\ \A v \in used : v <= w
            /\ \A b \in bitmap[w] : b <= bit
            /\ page_count' = Id(w, bit) + 1
      BY <3>0
    <3>2. /\ w \in Nat \ {0} /\ bit \in Bits /\ w <= Len(bitmap)
          /\ \A v \in 1 .. Len(bitmap) : bitmap[v] \subseteq Bits
      BY <1>0, BitmapWords
    <3>3. Id(w, bit) \in Nat /\ Id(w, bit) < w * WordBits
      BY <3>2, IdParts
    <3>4. Id(w, bit) + 1 <= Len(bitmap) * WordBits
      <4>1. /\ w * WordBits <= Len(bitmap) * WordBits /\ w * WordBits \in Nat
            /\ Len(bitmap) * WordBits \in Nat
        BY <1>0, <3>2, WordBitsPositive, ProductMonotone
      <4> QED BY <3>3, <4>1
    <3>5. ASSUME NEW v \in 1 .. Len(bitmap), NEW b \in bitmap[v]
          PROVE  Id(v, b) < Id(w, bit) + 1
      <4>1. v \in used /\ v \in Nat \ {0} /\ b \in Bits
        BY <3>2
      <4>2. v <= w /\ (v = w => b <= bit)
        BY <3>1, <4>1
      <4>3. Id(v, b) \in Nat
        BY <4>1, IdParts
      <4>4. ~(Id(w, bit) < Id(v, b))
        <5> SUFFICES ASSUME Id(w, bit) < Id(v, b) PROVE FALSE
          OBVIOUS
        <5>1. w < v \/ (w = v /\ bit < b)
          BY <3>2, <4>1, IdOrder
        <5>2. bit \in Nat /\ b \in Nat
          BY <3>2, <4>1, WordBitsPositive DEF Bits
        <5> QED BY <3>2, <4>1, <4>2, <5>1, <5>2
      <4> QED BY <3>3, <4>3, <4>4
    <3> QED BY <3>1, <3>3, <3>4, <3>5 DEF Covers
  <2> QED BY <1>1, <2>1, <2>2
<1>3. TypeOK'
  BY <1>1, <1>2 DEF CInv, TypeOK
<1> QED BY <1>1, <1>2, <1>3, PageCountCoversIs DEF CInv

-----------------------------------------------------------------------------
\* The constructor's bitmap is empty.
LEMMA InitCInv == Init => CInv /\ \A id \in Nat : ~IsAllocated(id)
<1> SUFFICES ASSUME Init PROVE CInv /\ \A id \in Nat : ~IsAllocated(id)
  OBVIOUS
<1>0. FirstWords \in Nat /\ MaxWords \in Nat /\ FirstWords <= MaxWords
  BY WordsAssumption DEF WordsAssumption
<1>1. /\ bitmap \in Seq(Word) /\ Len(bitmap) = FirstWords
      /\ \A w \in 1 .. FirstWords : bitmap[w] = {}
  <2>1. {} \in Word /\ bitmap = [w \in 1 .. FirstWords |-> {}]
    BY DEF Init, Word
  <2>2. /\ DOMAIN bitmap = 1 .. FirstWords /\ bitmap = [w \in 1 .. FirstWords |-> bitmap[w]]
        /\ \A w \in 1 .. FirstWords : bitmap[w] = {}
    BY <2>1
  <2>3. \A w \in 1 .. FirstWords : bitmap[w] \in Word
    BY <2>1, <2>2
  <2> QED BY <1>0, <2>2, <2>3, IntervalIsSeq
<1>2. TypeOK
  BY <1>0, <1>1 DEF Init, TypeOK
<1>3. PageCountCovers
  <2>1. 0 <= Len(bitmap) * WordBits
    BY <1>0, <1>1, WordBitsPositive, ProductMonotone
  <2> QED BY <1>1, <2>1 DEF Init, PageCountCovers
<1>4. \A id \in Nat : ~IsAllocated(id)
  <2> TAKE id \in Nat
  <2>1. WordOf(id) \in Nat \ {0}
    BY PartsOfId
  <2>2. WordOf(id) <= FirstWords => WordOf(id) \in 1 .. FirstWords
    BY <1>0, <2>1
  <2> QED BY <1>1, <2>2 DEF IsAllocated
<1> QED BY <1>2, <1>3, <1>4 DEF CInv

\* Every call keeps the invariant.
LEMMA NextCInv == CInv /\ [Next]_vars => CInv'
<1> SUFFICES ASSUME CInv, [Next]_vars PROVE CInv'
  OBVIOUS
<1>1. CASE \E w \in 1 .. Len(bitmap), bit \in Bits : AllocateBit(w, bit)
  BY <1>1, AllocateBitStep
<1>2. CASE AllocateWord
  BY <1>2, AllocateWordStep
<1>3. CASE \E id \in Ids : AllocateAt(id)
  BY <1>3, AllocateAtStep
<1>4. CASE \E id \in Ids : AllocateAtFails(id)
  BY <1>4, PageCountCoversIs DEF AllocateAtFails, CInv, TypeOK, Covers
<1>5. CASE \E id \in Ids : Free(id)
  BY <1>5, FreeStep
<1>6. CASE Reload
  BY <1>6, ReloadStep
<1>7. CASE UNCHANGED vars
  BY <1>7, PageCountCoversIs DEF vars, CInv, TypeOK
<1> QED BY <1>1, <1>2, <1>3, <1>4, <1>5, <1>6, <1>7 DEF Next

\* For words of any width, PageCount covers every page that is in use and no
\* more than the bitmap has bits for, after any mix of allocations, frees and
\* reloads (page_manager.cc, Allocate, AllocateAt, Deserialise).
THEOREM PagesAreCounted == Spec => []PageCountCovers
<1>1. Init => CInv
  BY InitCInv
<1>2. CInv /\ [Next]_vars => CInv'
  BY NextCInv
<1>3. CInv => PageCountCovers
  BY DEF CInv
<1> QED BY <1>1, <1>2, <1>3, PTL DEF Spec

\* The types are kept.
THEOREM BitmapTypeCorrect == Spec => []TypeOK
<1>1. Init => CInv
  BY InitCInv
<1>2. CInv /\ [Next]_vars => CInv'
  BY NextCInv
<1>3. CInv => TypeOK
  BY DEF CInv
<1> QED BY <1>1, <1>2, <1>3, PTL DEF Spec

-----------------------------------------------------------------------------
(* The refinement.                                                          *)

\* The ids in use.
InUse == {id \in Ids : IsAllocated(id)}

\* A new bitmap has no page in use.
LEMMA InitMaps == Init => Abstract!Init
<1> SUFFICES ASSUME Init PROVE Abstract!Init
  OBVIOUS
<1>1. \A id \in Ids : ~IsAllocated(id)
  BY InitCInv, IdsWithin
<1>2. result = Abstract!None
  BY DEF Init, None, Abstract!None
<1> QED BY <1>1, <1>2 DEF Abstract!Init

\* Allocate takes the lowest free id, in a word there is or in a new one.
LEMMA AllocateMaps ==
    ASSUME CInv, AllocateWord \/ \E w \in 1 .. Len(bitmap), bit \in Bits : AllocateBit(w, bit)
    PROVE  Abstract!Next
<1>1. /\ result' \in Ids /\ ~IsAllocated(result')
      /\ \A j \in Nat : j < result' => IsAllocated(j)
      /\ \A j \in Nat : IsAllocated(j)' <=> IsAllocated(j) \/ j = result'
  <2>1. CASE AllocateWord
    BY <2>1, AllocateWordStep
  <2>2. CASE \E w \in 1 .. Len(bitmap), bit \in Bits : AllocateBit(w, bit)
    <3>1. PICK w \in 1 .. Len(bitmap), bit \in Bits : AllocateBit(w, bit)
      BY <2>2
    <3>2. result' = Id(w, bit)
      BY <3>1 DEF AllocateBit
    <3> QED BY <3>1, <3>2, AllocateBitStep
  <2> QED BY <2>1, <2>2
<1>2. InUse' = InUse \cup {result'}
  BY <1>1, IdsWithin DEF InUse, Ids
<1>3. result' \notin InUse
  BY <1>1 DEF InUse
<1>4. 0 .. result' - 1 \subseteq InUse
  <2>1. PICK id \in Nat : id = result'
    BY <1>1, IdsWithin
  <2> SUFFICES ASSUME NEW j \in 0 .. id - 1 PROVE j \in InUse
    BY <2>1
  <2>2. j \in Nat /\ j < id
    OBVIOUS
  <2>3. j \in Ids
    <3>1. MaxWords \in Nat /\ MaxWords * WordBits \in Nat
      BY WordsAssumption, WordBitsPositive DEF WordsAssumption
    <3> QED BY <1>1, <2>1, <2>2, <3>1 DEF Ids
  <2>4. IsAllocated(j)
    BY <1>1, <2>1, <2>2
  <2> QED BY <2>3, <2>4 DEF InUse
<1>5. Abstract!Allocate(result')
  BY <1>2, <1>3, <1>4 DEF Abstract!Allocate, InUse
<1> QED BY <1>1, <1>5 DEF Abstract!Next

\* AllocateAt and Free of an id are the abstract ones of the same id.
LEMMA CallsMap ==
    ASSUME CInv, NEW id \in Ids, AllocateAt(id) \/ AllocateAtFails(id) \/ Free(id)
    PROVE  Abstract!Next
<1>0. Ids \subseteq Nat
  BY IdsWithin
<1>1. CASE AllocateAt(id)
  <2>1. /\ ~IsAllocated(id) /\ result' = None
        /\ \A j \in Nat : IsAllocated(j)' <=> IsAllocated(j) \/ j = id
    BY <1>1, AllocateAtStep
  <2>2. InUse' = InUse \cup {id} /\ id \notin InUse
    BY <1>0, <2>1 DEF InUse, Ids
  <2>3. Abstract!AllocateAt(id)
    BY <2>1, <2>2 DEF Abstract!AllocateAt, Abstract!None, None, InUse
  <2> QED BY <2>3 DEF Abstract!Next
<1>2. CASE AllocateAtFails(id)
  <2>1. id \in InUse /\ InUse' = InUse /\ result' = Thrown
    BY <1>2 DEF AllocateAtFails, InUse, IsAllocated
  <2>2. Abstract!AllocateAt(id)
    BY <2>1 DEF Abstract!AllocateAt, Abstract!Thrown, Thrown, InUse
  <2> QED BY <2>2 DEF Abstract!Next
<1>3. CASE Free(id)
  <2>1. /\ result' = None
        /\ \A j \in Nat : IsAllocated(j)' <=> IsAllocated(j) /\ j # id
    BY <1>3, FreeStep
  <2>2. InUse' = InUse \ {id}
    BY <1>0, <2>1 DEF InUse, Ids
  <2>3. Abstract!Free(id)
    BY <2>1, <2>2 DEF Abstract!Free, Abstract!None, None, InUse
  <2> QED BY <2>3 DEF Abstract!Next
<1> QED BY <1>1, <1>2, <1>3

\* Every step is one of the abstract allocator's, or changes nothing there.
LEMMA NextMaps ==
    ASSUME CInv, [Next]_vars
    PROVE  Abstract!Next \/ (InUse' = InUse /\ result' = result)
<1>1. CASE AllocateWord \/ \E w \in 1 .. Len(bitmap), bit \in Bits : AllocateBit(w, bit)
  BY <1>1, AllocateMaps
<1>2. CASE \E id \in Ids : AllocateAt(id) \/ AllocateAtFails(id) \/ Free(id)
  BY <1>2, CallsMap
<1>3. CASE Reload
  BY <1>3, ReloadStep DEF InUse, IsAllocated
<1>4. CASE UNCHANGED vars
  BY <1>4 DEF vars, InUse, IsAllocated
<1> QED BY <1>1, <1>2, <1>3, <1>4 DEF Next

\* The bitmap of words that doubles as the file's serialised form is a set of
\* ids of which Allocate hands out the lowest one that is free, and writing it
\* and reading it back changes nothing (page_manager.h:26-31).
THEOREM AllocatorRefined == Spec => RefinesPageAllocator
<1>1. Init => CInv /\ Abstract!Init
  BY InitCInv, InitMaps
<1>2. CInv /\ [Next]_vars => CInv'
  BY NextCInv
<1>3. CInv /\ [Next]_vars => [Abstract!Next]_<<InUse, result>>
  BY NextMaps
<1> QED BY <1>1, <1>2, <1>3, PTL DEF Spec, RefinesPageAllocator, Abstract!Spec, InUse
=============================================================================
