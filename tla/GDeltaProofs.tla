----------------------------- MODULE GDeltaProofs -----------------------------
(***************************************************************************)
(* Proofs about GDelta and GDeltaMain, for buffers of any bytes and any    *)
(* length, any word size, stride and width of a varint: varints and units  *)
(* are read as they were written, the units gencode writes describe the    *)
(* buffer from the first byte to the last, and gdecode restores it.        *)
(***************************************************************************)
EXTENDS GDeltaMain, SequenceTheorems, FiniteSetTheorems, WellFoundedInduction, TLAPS

-----------------------------------------------------------------------------
(* Induction and recursion.  Sets take the place of predicates and of       *)
(* operators, which the provers cannot instantiate.                         *)

\* A set with 0 in it, and with n + 1 for each n, has every natural number.
LEMMA SetInduction ==
    ASSUME NEW T, 0 \in T, \A n \in Nat : n \in T => n + 1 \in T
    PROVE  \A n \in Nat : n \in T
<1> DEFINE Out  == Nat \ T
           Less == OpToRel(<, Nat)
<1> SUFFICES ASSUME Out # {} PROVE FALSE
  OBVIOUS
<1>0. \A i, j \in Nat : i < j => <<i, j>> \in Less
  BY DEF OpToRel
<1>1. \E x \in Out : \A y \in Out : ~(<<y, x>> \in Less)
  <2>1. IsWellFoundedOn(Less, Nat)
    BY NatLessThanWellFounded
  <2>2. Out \subseteq Nat
    OBVIOUS
  <2> HIDE DEF Out, Less
  <2> QED BY <2>1, <2>2, WFMin
<1> HIDE DEF Less
<1>2. PICK x \in Out : \A y \in Out : ~(<<y, x>> \in Less)
  BY <1>1
<1>3. x # 0 /\ x \in Nat /\ x - 1 \in Nat /\ x - 1 < x
  OBVIOUS
<1>4. x - 1 \in Out
  BY <1>3
<1> QED BY <1>0, <1>2, <1>3, <1>4

\* The same with all smaller numbers at hand.
LEMMA StrongInduction ==
    ASSUME NEW T, \A n \in Nat : (\A m \in Nat : m < n => m \in T) => n \in T
    PROVE  \A n \in Nat : n \in T
<1> DEFINE U == {n \in Nat : \A m \in Nat : m < n => m \in T}
<1>1. 0 \in U
  OBVIOUS
<1>2. \A n \in Nat : n \in U => n + 1 \in U
  <2> SUFFICES ASSUME NEW n \in Nat, n \in U, NEW m \in Nat, m < n + 1 PROVE m \in T
    OBVIOUS
  <2>1. n \in T
    OBVIOUS
  <2>2. m < n \/ m = n
    OBVIOUS
  <2> QED BY <2>1, <2>2
<1> HIDE DEF U
<1>3. \A n \in Nat : n \in U
  BY <1>1, <1>2, SetInduction
<1> QED BY <1>3 DEF U

\* A recursive function: the value at v is E[v], or made by F[v] of that at
\* P[v], of which a measure M is smaller.
Recursive(D, B, N, M, Ends, P, E, F) ==
    /\ N \in Nat /\ M \in [D -> 0 .. N]
    /\ \A v \in D : v \in Ends => E[v] \in B
    /\ \A v \in D : v \notin Ends => P[v] \in D /\ M[P[v]] < M[v]
    /\ \A v \in D : v \notin Ends => \A b \in B : F[v][b] \in B
Solvable(D, B, Ends, P, E, F) ==
    \E g \in [D -> B] : \A v \in D : g[v] = IF v \in Ends THEN E[v] ELSE F[v][g[P[v]]]

\* It exists.
LEMMA Recursion ==
    ASSUME NEW D, NEW B, NEW N, NEW M, NEW Ends, NEW P, NEW E, NEW F,
           Recursive(D, B, N, M, Ends, P, E, F)
    PROVE  Solvable(D, B, Ends, P, E, F)
<1> USE DEF Recursive
<1> DEFINE Step(g, v) == IF v \in Ends THEN E[v] ELSE F[v][g[P[v]]]
           Low(n) == {v \in D : M[v] < n}
           T == {n \in Nat : \E g \in [Low(n) -> B] : \A v \in Low(n) : g[v] = Step(g, v)}
<1>1. 0 \in T
  <2>1. Low(0) = {}
    OBVIOUS
  <2>2. [v \in {} |-> v] \in [Low(0) -> B]
    BY <2>1
  <2> QED BY <2>1, <2>2
<1>2. \A n \in Nat : n \in T => n + 1 \in T
  <2> SUFFICES ASSUME NEW n \in Nat, n \in T PROVE n + 1 \in T
    OBVIOUS
  <2>1. PICK g \in [Low(n) -> B] : \A v \in Low(n) : g[v] = Step(g, v)
    OBVIOUS
  <2> DEFINE h == [v \in Low(n + 1) |-> Step(g, v)]
  <2>2. \A v \in Low(n + 1) : v \notin Ends => P[v] \in Low(n)
    <3> SUFFICES ASSUME NEW v \in Low(n + 1), v \notin Ends PROVE P[v] \in Low(n)
      OBVIOUS
    <3>1. P[v] \in D /\ M[P[v]] < M[v] /\ M[v] \in 0 .. N /\ M[P[v]] \in 0 .. N /\ M[v] < n + 1
      OBVIOUS
    <3> QED BY <3>1
  <2>3. h \in [Low(n + 1) -> B]
    BY <2>2
  <2>4. \A v \in Low(n) : v \in Low(n + 1) /\ h[v] = g[v]
    BY <2>1
  <2>5. \A v \in Low(n + 1) : h[v] = Step(h, v)
    BY <2>2, <2>4
  <2> HIDE DEF h, Low, Step
  <2> QED BY <2>3, <2>5
<1> HIDE DEF T
<1>3. N + 1 \in T
  BY <1>1, <1>2, SetInduction
<1>4. Low(N + 1) = D
  OBVIOUS
<1>5. PICK g \in [D -> B] : \A v \in D : g[v] = Step(g, v)
  BY <1>3, <1>4 DEF T
<1> QED BY <1>5 DEF Solvable

-----------------------------------------------------------------------------
(* Varints.                                                                 *)

Digit == [more : BOOLEAN, sub : Nat]

\* w is a varint of v: only its last part says that none follows, and each
\* part with those behind it makes a number, the first of them v.
Spells(w, v) ==
    /\ w \in Seq(Digit) /\ Len(w) >= 1
    /\ \A k \in 1..Len(w) : w[k].more <=> k < Len(w)
    /\ \E q \in [1..Len(w) -> Nat] :
         /\ q[1] = v
         /\ \A k \in 1..Len(w) :
              q[k] = w[k].sub + IF k = Len(w) THEN 0 ELSE Part * q[k + 1]

LEMMA PartIs == Part \in Nat /\ Part > 1
BY GDeltaAssumption

\* A quotient by Part is smaller, and with the remainder makes the number.
LEMMA PartDivides ==
    ASSUME NEW x \in Nat, x >= Part
    PROVE  /\ x \div Part \in Nat /\ x \div Part < x
           /\ x % Part \in Nat
           /\ x = (x % Part) + Part * (x \div Part)
<1> DEFINE q == x \div Part
           r == x % Part
<1>1. q \in Int /\ r \in 0 .. Part - 1 /\ q >= 0
  BY PartIs
<1>2. x = Part * q + r
  BY PartIs
<1> HIDE DEF q, r
<1>3. Part * q >= 2 * q
  BY <1>1, PartIs
<1>4. q < x
  BY <1>1, <1>2, <1>3, PartIs
<1> QED BY <1>1, <1>2, <1>4, PartIs DEF q, r

\* A part in front of a varint.
LEMMA OneDigit ==
    ASSUME NEW v \in Nat
    PROVE  Spells(<<[more |-> FALSE, sub |-> v]>>, v)
<1> DEFINE w == <<[more |-> FALSE, sub |-> v]>>
           q == [k \in 1..1 |-> v]
<1>1. w \in Seq(Digit) /\ Len(w) = 1 /\ w[1] = [more |-> FALSE, sub |-> v]
  BY DEF Digit
<1>2. q \in [1..Len(w) -> Nat] /\ q[1] = v
  BY <1>1
<1>3. \A k \in 1..Len(w) : w[k].more <=> k < Len(w)
  BY <1>1
<1>4. \A k \in 1..Len(w) : q[k] = w[k].sub + IF k = Len(w) THEN 0 ELSE Part * q[k + 1]
  BY <1>1
<1> HIDE DEF w, q
<1> QED BY <1>1, <1>2, <1>3, <1>4 DEF Spells, w

LEMMA MoreDigits ==
    ASSUME NEW x \in Nat, NEW r \in Nat, NEW y \in Nat, x = r + Part * y, NEW w, Spells(w, y)
    PROVE  Spells(<<[more |-> TRUE, sub |-> r]>> \o w, x)
<1> DEFINE d == [more |-> TRUE, sub |-> r]
           u == <<d>> \o w
<1>1. PICK q \in [1..Len(w) -> Nat] :
         /\ q[1] = y
         /\ \A k \in 1..Len(w) :
              q[k] = w[k].sub + IF k = Len(w) THEN 0 ELSE Part * q[k + 1]
  BY DEF Spells
<1>2. w \in Seq(Digit) /\ Len(w) \in Nat \ {0} /\ \A k \in 1..Len(w) : w[k].more <=> k < Len(w)
  BY DEF Spells
<1>3. /\ u \in Seq(Digit) /\ Len(u) = Len(w) + 1 /\ u[1] = d
      /\ \A k \in 2..Len(u) : u[k] = w[k - 1]
  BY <1>2 DEF Digit
<1> DEFINE p == [k \in 1..Len(w) + 1 |-> IF k = 1 THEN x ELSE q[k - 1]]
<1>4. p \in [1..Len(u) -> Nat] /\ p[1] = x /\ \A k \in 2..Len(u) : p[k] = q[k - 1]
  BY <1>2, <1>3
<1> HIDE DEF u, p
<1>5. \A k \in 1..Len(u) : u[k].more <=> k < Len(u)
  <2> SUFFICES ASSUME NEW k \in 1..Len(u) PROVE u[k].more <=> k < Len(u)
    OBVIOUS
  <2>1. CASE k = 1
    BY <2>1, <1>2, <1>3
  <2>2. CASE k # 1
    <3>1. k - 1 \in 1..Len(w) /\ u[k] = w[k - 1]
      BY <2>2, <1>2, <1>3
    <3> QED BY <3>1, <1>2, <1>3
  <2> QED BY <2>1, <2>2
<1>6. \A k \in 1..Len(u) : p[k] = u[k].sub + IF k = Len(u) THEN 0 ELSE Part * p[k + 1]
  <2> SUFFICES ASSUME NEW k \in 1..Len(u)
               PROVE  p[k] = u[k].sub + IF k = Len(u) THEN 0 ELSE Part * p[k + 1]
    OBVIOUS
  <2>1. CASE k = 1
    <3>1. p[2] = q[1] /\ Len(u) # 1 /\ u[1].sub = r
      BY <1>2, <1>3, <1>4
    <3> QED BY <2>1, <3>1, <1>1, <1>4
  <2>2. CASE k # 1
    <3>1. k - 1 \in 1..Len(w) /\ u[k] = w[k - 1] /\ p[k] = q[k - 1]
      BY <2>2, <1>2, <1>3, <1>4
    <3>2. k # Len(u) => k \in 1..Len(w) /\ p[k + 1] = q[k]
      BY <2>2, <1>2, <1>3, <1>4
    <3>3. q[k - 1] = w[k - 1].sub + IF k - 1 = Len(w) THEN 0 ELSE Part * q[(k - 1) + 1]
      BY <3>1, <1>1
    <3> QED BY <3>1, <3>2, <3>3, <1>2, <1>3
  <2> QED BY <2>1, <2>2
<1>7. \E t \in [1..Len(u) -> Nat] :
        /\ t[1] = x
        /\ \A k \in 1..Len(u) : t[k] = u[k].sub + IF k = Len(u) THEN 0 ELSE Part * t[k + 1]
  BY <1>4, <1>6
<1>8. u \in Seq(Digit) /\ Len(u) >= 1
  BY <1>2, <1>3
<1>9. Spells(u, x)
  BY <1>8, <1>5, <1>7, Zenon DEF Spells
<1> QED BY <1>9 DEF u

\* write_varint writes a varint of its argument.
LEMMA VarintWritten ==
    ASSUME NEW val \in Nat
    PROVE  Spells(write_varint(val), val)
<1> DEFINE D == 0..val
           B == Seq(Digit)
           LastPart(v)  == <<[more |-> FALSE, sub |-> v]>>
           First(v) == <<[more |-> TRUE, sub |-> v % Part]>>
           parts == CHOOSE g : g = [v \in D |-> IF v < Part THEN LastPart(v)
                                                ELSE First(v) \o g[v \div Part]]
<1>1. write_varint(val) = parts[val]
  BY DEF write_varint
<1>2. \A v \in D : v >= Part => /\ v \div Part \in D /\ v \div Part < v
                                /\ v % Part \in Nat /\ v = (v % Part) + Part * (v \div Part)
  BY PartDivides, PartIs
<1>3. \A v \in D : LastPart(v) \in B
  BY DEF Digit
<1>4. \A v \in D : v >= Part => \A s \in B : First(v) \o s \in B
  <2> SUFFICES ASSUME NEW v \in D, v >= Part, NEW s \in B PROVE First(v) \o s \in B
    OBVIOUS
  <2>1. First(v) \in B
    BY <1>2 DEF Digit
  <2> QED BY <2>1
<1>5. \E g : g = [v \in D |-> IF v < Part THEN LastPart(v) ELSE First(v) \o g[v \div Part]]
  <2> DEFINE M == [v \in D |-> v]
             Ends == {v \in D : v < Part}
             P == [v \in D |-> v \div Part]
             E == [v \in D |-> LastPart(v)]
             F == [v \in D |-> [s \in B |-> First(v) \o s]]
  <2>1. M \in [D -> 0 .. val]
    OBVIOUS
  <2>2. \A v \in D : v \in Ends => E[v] \in B
    BY <1>3
  <2>3. \A v \in D : v \notin Ends => P[v] \in D /\ M[P[v]] < M[v]
    BY <1>2, PartIs
  <2>4. \A v \in D : v \notin Ends => \A b \in B : F[v][b] \in B
    BY <1>4, PartIs
  <2>5. PICK g \in [D -> B] : \A v \in D : g[v] = IF v \in Ends THEN E[v] ELSE F[v][g[P[v]]]
    <3> HIDE DEF D, B, M, Ends, P, E, F
    <3>1. Recursive(D, B, val, M, Ends, P, E, F)
      BY <2>1, <2>2, <2>3, <2>4 DEF Recursive
    <3>2. Solvable(D, B, Ends, P, E, F)
      BY <3>1, Recursion
    <3> QED BY <3>2 DEF Solvable
  <2>6. \A v \in D : g[v] = IF v < Part THEN LastPart(v) ELSE First(v) \o g[v \div Part]
    <3> SUFFICES ASSUME NEW v \in D
                 PROVE  g[v] = IF v < Part THEN LastPart(v) ELSE First(v) \o g[v \div Part]
      OBVIOUS
    <3>0. g[v] = IF v \in Ends THEN E[v] ELSE F[v][g[P[v]]]
      BY <2>5
    <3>1. CASE v < Part
      BY <3>0, <3>1
    <3>2. CASE ~(v < Part)
      <4>1. P[v] = v \div Part /\ P[v] \in D /\ g[P[v]] \in B /\ v \notin Ends
        BY <3>2, <2>3
      <4>2. F[v][g[P[v]]] = First(v) \o g[P[v]]
        BY <4>1
      <4> QED BY <3>0, <3>2, <4>1, <4>2
    <3> QED BY <3>1, <3>2
  <2> HIDE DEF LastPart, First
  <2>7. g = [v \in D |-> IF v < Part THEN LastPart(v) ELSE First(v) \o g[v \div Part]]
    BY <2>6
  <2> QED BY <2>7
<1>6. parts = [v \in D |-> IF v < Part THEN LastPart(v) ELSE First(v) \o parts[v \div Part]]
  BY <1>5, Zenon
<1> HIDE DEF parts
<1>7. \A v \in D : parts[v] = IF v < Part THEN LastPart(v) ELSE First(v) \o parts[v \div Part]
  BY <1>6
<1> DEFINE T == {v \in Nat : v <= val => Spells(parts[v], v)}
<1>8. \A n \in Nat : (\A m \in Nat : m < n => m \in T) => n \in T
  <2> SUFFICES ASSUME NEW n \in Nat, \A m \in Nat : m < n => m \in T, n <= val
               PROVE  Spells(parts[n], n)
    OBVIOUS
  <2>1. CASE n < Part
    <3>1. n \in D
      OBVIOUS
    <3>2. parts[n] = LastPart(n)
      BY <3>1, <2>1, <1>7
    <3> QED BY <3>2, OneDigit
  <2>2. CASE ~(n < Part)
    <3>1. n \in D /\ n >= Part
      BY <2>2, PartIs
    <3>2. n \div Part \in Nat /\ n \div Part < n /\ n % Part \in Nat
          /\ n = (n % Part) + Part * (n \div Part)
      BY <3>1, <1>2
    <3>3. Spells(parts[n \div Part], n \div Part)
      BY <3>2
    <3>4. Spells(First(n) \o parts[n \div Part], n)
      BY <3>2, <3>3, MoreDigits
    <3> QED BY <3>1, <3>4, <1>7, <2>2
  <2> QED BY <2>1, <2>2
<1>9. \A n \in Nat : n \in T
  <2> HIDE DEF T
  <2> QED BY <1>8, StrongInduction
<1> QED BY <1>1, <1>9

\* The sequence w stands in a stream from c on.
Stands(stream, c, w) ==
    /\ c + Len(w) <= Len(stream) + 1
    /\ \A k \in 1..Len(w) : stream[c + k - 1] = w[k]

LEMMA StandsInParts ==
    ASSUME NEW S, NEW a \in Seq(S), NEW b \in Seq(S), NEW c \in Nat,
           NEW stream, Len(stream) \in Nat, Stands(stream, c, a \o b)
    PROVE  Stands(stream, c, a) /\ Stands(stream, c + Len(a), b)
<1>1. /\ Len(a) \in Nat /\ Len(b) \in Nat /\ Len(a \o b) = Len(a) + Len(b)
      /\ \A k \in 1..Len(a) : (a \o b)[k] = a[k]
  OBVIOUS
<1>2. \A k \in 1..Len(b) : (a \o b)[Len(a) + k] = b[k]
  OBVIOUS
<1> DEFINE w == a \o b
<1> HIDE DEF w
<1>3. c + Len(w) <= Len(stream) + 1 /\ \A k \in 1..Len(w) : stream[c + k - 1] = w[k]
  BY DEF Stands, w
<1>4. Stands(stream, c, a)
  BY <1>1, <1>3 DEF Stands, w
<1>5. \A k \in 1..Len(b) : stream[c + Len(a) + k - 1] = b[k]
  <2> SUFFICES ASSUME NEW k \in 1..Len(b) PROVE stream[c + Len(a) + k - 1] = b[k]
    OBVIOUS
  <2>1. Len(a) + k \in 1..Len(w) /\ c + (Len(a) + k) - 1 = c + Len(a) + k - 1
    BY <1>1 DEF w
  <2> QED BY <2>1, <1>2, <1>3 DEF w
<1>6. c + Len(a) + Len(b) <= Len(stream) + 1
  BY <1>1, <1>3 DEF w
<1> QED BY <1>4, <1>5, <1>6 DEF Stands

\* A varint is read from wherever it stands in a stream.
LEMMA VarintRead ==
    ASSUME NEW v, NEW w, Spells(w, v), NEW c \in Nat,
           NEW stream, Len(stream) \in Nat, Stands(stream, c, w)
    PROVE  read_varint(stream, c) = [val |-> v, cursor |-> c + Len(w)]
<1> DEFINE IsLast(i) == ~stream[i].more /\ \A j \in c..(i - 1) : stream[j].more
           last == CHOOSE i \in c..Len(stream) : IsLast(i)
           Sum(g, i) == stream[i].sub + IF i = last THEN 0 ELSE Part * g[i + 1]
           value == CHOOSE g : g = [i \in c..last |-> Sum(g, i)]
<1>1. read_varint(stream, c) = [val |-> value[c], cursor |-> last + 1]
  BY DEF read_varint
<1>2. Len(w) \in Nat \ {0} /\ \A k \in 1..Len(w) : w[k].more <=> k < Len(w)
  BY DEF Spells
<1> DEFINE e == c + Len(w) - 1
<1>3. \A i \in c..e : stream[i] = w[i - c + 1]
  <2> SUFFICES ASSUME NEW i \in c..e PROVE stream[i] = w[i - c + 1]
    OBVIOUS
  <2>1. i - c + 1 \in 1..Len(w) /\ c + (i - c + 1) - 1 = i
    BY <1>2
  <2> QED BY <2>1 DEF Stands
<1>4. e \in c..Len(stream) /\ \A i \in c..e : stream[i].more <=> i < e
  <2>1. e \in c..Len(stream)
    BY <1>2 DEF Stands
  <2>2. \A i \in c..e : i - c + 1 \in 1..Len(w) /\ (i - c + 1 < Len(w) <=> i < e)
    BY <1>2
  <2> HIDE DEF e
  <2> QED BY <2>1, <2>2, <1>2, <1>3
<1> HIDE DEF e
<1>5. last = e
  <2>1. IsLast(e)
    BY <1>4
  <2>2. \A i \in c..Len(stream) : IsLast(i) => i = e
    <3> SUFFICES ASSUME NEW i \in c..Len(stream), IsLast(i) PROVE i = e
      OBVIOUS
    <3>1. CASE i < e
      BY <3>1, <1>4
    <3>2. CASE i > e
      <4>1. e \in c..(i - 1)
        BY <3>2, <1>4
      <4> QED BY <4>1, <1>4
    <3> QED BY <3>1, <3>2, <1>4
  <2> HIDE DEF IsLast
  <2> QED BY <2>1, <2>2, <1>4
<1>6. PICK q \in [1..Len(w) -> Nat] :
         /\ q[1] = v
         /\ \A k \in 1..Len(w) :
              q[k] = w[k].sub + IF k = Len(w) THEN 0 ELSE Part * q[k + 1]
  BY DEF Spells
<1> HIDE DEF last
<1> DEFINE h == [i \in c..e |-> q[i - c + 1]]
<1>7. \A i \in c..e : h[i] = Sum(h, i)
  <2> SUFFICES ASSUME NEW i \in c..e PROVE h[i] = Sum(h, i)
    OBVIOUS
  <2> DEFINE k == i - c + 1
  <2>1. k \in 1..Len(w) /\ (k = Len(w) <=> i = e) /\ h[i] = q[k] /\ stream[i] = w[k]
    BY <1>2, <1>3 DEF e
  <2>2. i # e => h[i + 1] = q[k + 1]
    <3>1. i # e => i + 1 \in c..e /\ (i + 1) - c + 1 = k + 1
      BY <1>4
    <3> QED BY <3>1
  <2>3. q[k] = w[k].sub + IF k = Len(w) THEN 0 ELSE Part * q[k + 1]
    BY <2>1, <1>6
  <2> HIDE DEF k, h
  <2> QED BY <2>1, <2>2, <2>3, <1>5
<1>8. h = [i \in c..last |-> Sum(h, i)]
  <2> HIDE DEF Sum
  <2> QED BY <1>5, <1>7
<1>9. value = [i \in c..last |-> Sum(value, i)]
  <2> HIDE DEF Sum, h
  <2> QED BY <1>8, Zenon
<1> HIDE DEF value
<1>10. \A i \in c..e : value[i] = Sum(value, i)
  <2> HIDE DEF Sum
  <2> QED BY <1>5, <1>9
<1>11. \A n \in Nat : n <= e - c => value[e - n] = h[e - n]
  <2> DEFINE T == {n \in Nat : n <= e - c => value[e - n] = h[e - n]}
  <2> HIDE DEF h
  <2>1. 0 \in T
    <3>1. e - 0 = e /\ e \in c..e
      BY <1>4
    <3> QED BY <3>1, <1>5, <1>7, <1>10
  <2>2. \A n \in Nat : n \in T => n + 1 \in T
    <3> SUFFICES ASSUME NEW n \in Nat, n \in T, n + 1 <= e - c
                 PROVE  value[e - (n + 1)] = h[e - (n + 1)]
      OBVIOUS
    <3> DEFINE i == e - (n + 1)
    <3>1. i \in c..e /\ i # e /\ i + 1 = e - n
      BY <1>4
    <3>2. value[i + 1] = h[i + 1]
      BY <3>1, <1>4
    <3> HIDE DEF i
    <3>3. value[i] = h[i]
      BY <3>1, <3>2, <1>5, <1>7, <1>10
    <3> QED BY <3>3 DEF i
  <2> HIDE DEF T
  <2>3. \A n \in Nat : n \in T
    BY <2>1, <2>2, SetInduction
  <2> QED BY <2>3 DEF T
<1>12. value[c] = v
  <2>1. PICK n \in Nat : n = e - c
    BY <1>4
  <2>2. e - n = c /\ c \in c..e
    BY <2>1, <1>4
  <2>3. h[c] = v
    BY <2>2, <1>6
  <2> HIDE DEF h
  <2>4. value[e - n] = h[e - n]
    BY <2>1, <1>11
  <2> QED BY <2>2, <2>3, <2>4
<1>13. last + 1 = c + Len(w)
  BY <1>2, <1>5 DEF e
<1> QED BY <1>1, <1>12, <1>13

-----------------------------------------------------------------------------
(* Units.                                                                   *)

Head1  == [flag : BOOLEAN, more : BOOLEAN, sub : Nat]
Symbol == Head1 \cup Digit

\* The units gencode writes: a literal has no offset.
Units == {u \in [flag : BOOLEAN, offset : Nat, length : Nat] : u.flag \/ u.offset = 0}

LEMMA UnitKinds ==
    /\ \A o, n \in Nat : Copy(o, n) \in Units
    /\ \A n \in Nat : Literal(n) \in Units
BY DEF Units, Copy, Literal

LEMMA SpelledIsSymbols ==
    ASSUME NEW w, NEW v, Spells(w, v)
    PROVE  w \in Seq(Symbol) /\ Len(w) \in Nat \ {0}
<1>1. w \in Seq(Digit) /\ Len(w) >= 1
  BY DEF Spells
<1>2. Digit \subseteq Symbol
  BY DEF Symbol
<1> QED BY <1>1, <1>2, SeqMonotonic

LEMMA Halves ==
    ASSUME NEW n \in Nat
    PROVE  /\ n \div 2 \in Nat /\ n % 2 \in Nat
           /\ 2 * (n \div 2) + (n % 2) = n
           /\ n > 1 <=> n \div 2 > 0
<1> DEFINE q == n \div 2  r == n % 2
<1>1. q \in Int /\ r \in 0 .. 1
  OBVIOUS
<1>2. n = 2 * q + r
  OBVIOUS
<1> HIDE DEF q, r
<1>3. q \in Nat /\ r \in Nat /\ 2 * q + r = n /\ (n > 1 <=> q > 0)
  BY <1>1, <1>2
<1> QED BY <1>3 DEF q, r

\* The parts of a unit.
HeadOf(u)   == [flag |-> u.flag, more |-> u.length > 1, sub |-> u.length % 2]
LengthOf(u) == IF u.length \div 2 > 0 THEN write_varint(u.length \div 2) ELSE <<>>
OffsetOf(u) == IF u.flag THEN write_varint(u.offset) ELSE <<>>

LEMMA UnitParts ==
    ASSUME NEW u \in Units
    PROVE  /\ write_unit(u) = <<HeadOf(u)>> \o LengthOf(u) \o OffsetOf(u)
           /\ <<HeadOf(u)>> \in Seq(Symbol)
           /\ LengthOf(u) \in Seq(Symbol) /\ OffsetOf(u) \in Seq(Symbol)
           /\ u.length \div 2 > 0 => Spells(LengthOf(u), u.length \div 2)
           /\ u.flag => Spells(OffsetOf(u), u.offset)
<1>1. u.length \in Nat /\ u.offset \in Nat /\ u.flag \in BOOLEAN
      /\ u.length \div 2 \in Nat /\ u.length % 2 \in Nat
  BY DEF Units
<1>2. HeadOf(u) \in Symbol
  BY <1>1 DEF HeadOf, Symbol, Head1
<1>3. u.length \div 2 > 0 => Spells(LengthOf(u), u.length \div 2)
  BY <1>1, VarintWritten DEF LengthOf
<1>4. u.flag => Spells(OffsetOf(u), u.offset)
  BY <1>1, VarintWritten DEF OffsetOf
<1>5. LengthOf(u) \in Seq(Symbol)
  <2>1. CASE u.length \div 2 > 0
    BY <2>1, <1>3, SpelledIsSymbols
  <2>2. CASE ~(u.length \div 2 > 0)
    BY <2>2 DEF LengthOf
  <2> QED BY <2>1, <2>2
<1>6. OffsetOf(u) \in Seq(Symbol)
  <2>1. CASE u.flag
    BY <2>1, <1>4, SpelledIsSymbols
  <2>2. CASE ~u.flag
    BY <2>2 DEF OffsetOf
  <2> QED BY <2>1, <2>2
<1>7. write_unit(u) = <<HeadOf(u)>> \o LengthOf(u) \o OffsetOf(u)
  BY DEF write_unit, HeadOf, LengthOf, OffsetOf
<1> QED BY <1>2, <1>3, <1>4, <1>5, <1>6, <1>7

LEMMA UnitWritten ==
    ASSUME NEW u \in Units
    PROVE  write_unit(u) \in Seq(Symbol) /\ Len(write_unit(u)) \in Nat \ {0}
<1> DEFINE h == <<HeadOf(u)>>  a == LengthOf(u)  b == OffsetOf(u)
<1>1. /\ write_unit(u) = h \o a \o b
      /\ h \in Seq(Symbol) /\ Len(h) = 1
      /\ a \in Seq(Symbol) /\ b \in Seq(Symbol)
  BY UnitParts
<1> HIDE DEF h, a, b
<1> QED BY <1>1

\* A unit is read from wherever it stands in a stream.
LEMMA UnitRead ==
    ASSUME NEW u \in Units, NEW c \in Nat,
           NEW stream, Len(stream) \in Nat, Stands(stream, c, write_unit(u))
    PROVE  read_unit(stream, c) = [unit |-> u, cursor |-> c + Len(write_unit(u))]
<1> DEFINE h == <<HeadOf(u)>>  a == LengthOf(u)  b == OffsetOf(u)
           x == stream[c]
           rest == IF x.more THEN read_varint(stream, c + 1)
                   ELSE [val |-> 0, cursor |-> c + 1]
           off == IF x.flag THEN read_varint(stream, rest.cursor)
                  ELSE [val |-> 0, cursor |-> rest.cursor]
<1>1. /\ write_unit(u) = h \o a \o b
      /\ h \in Seq(Symbol) /\ Len(h) = 1 /\ h[1] = HeadOf(u)
      /\ a \in Seq(Symbol) /\ b \in Seq(Symbol)
      /\ u.length \div 2 > 0 => Spells(a, u.length \div 2)
      /\ u.flag => Spells(b, u.offset)
  BY UnitParts
<1>2. /\ u.length \in Nat /\ u.offset \in Nat /\ u.flag \in BOOLEAN
      /\ ~u.flag => u.offset = 0
      /\ u = [flag |-> u.flag, offset |-> u.offset, length |-> u.length]
  BY DEF Units
<1>3. a = <<>> \/ u.length \div 2 > 0
  BY DEF LengthOf
<1>4. b = <<>> \/ u.flag
  BY DEF OffsetOf
<1> HIDE DEF h, a, b
<1>5. h \o a \in Seq(Symbol) /\ Len(h \o a) = 1 + Len(a) /\ Len(a) \in Nat /\ Len(b) \in Nat
  <2>1. Len(a) \in Nat /\ Len(b) \in Nat
    BY <1>1, LenProperties
  <2>2. h \in Seq(Symbol) /\ a \in Seq(Symbol)
    BY <1>1
  <2>3. h \o a \in Seq(Symbol) /\ Len(h \o a) = Len(h) + Len(a)
    BY <2>2, ConcatProperties
  <2> QED BY <2>1, <2>3, <1>1
<1>6. Len(write_unit(u)) = 1 + Len(a) + Len(b)
  <2>1. h \o a \in Seq(Symbol) /\ b \in Seq(Symbol)
    BY <1>1, <1>5
  <2>2. Len((h \o a) \o b) = Len(h \o a) + Len(b)
    BY <2>1, ConcatProperties
  <2>3. Len(write_unit(u)) = Len(h \o a) + Len(b)
    BY <2>2, <1>1
  <2> QED BY <2>3, <1>5
<1>7. Stands(stream, c, h \o a) /\ Stands(stream, c + (1 + Len(a)), b)
  BY <1>1, <1>5, StandsInParts
<1>8. Stands(stream, c, h) /\ Stands(stream, c + 1, a)
  BY <1>1, <1>7, StandsInParts
<1>9. x = HeadOf(u)
  <2>1. stream[c + 1 - 1] = h[1]
    BY <1>1, <1>8 DEF Stands
  <2> QED BY <2>1, <1>1
<1>10. /\ x.flag = u.flag /\ x.sub = u.length % 2
       /\ x.more <=> u.length \div 2 > 0
  <2>1. x = [flag |-> u.flag, more |-> u.length > 1, sub |-> u.length % 2]
    BY <1>9 DEF HeadOf
  <2>2. x.flag = u.flag /\ x.more = (u.length > 1) /\ x.sub = u.length % 2
    <3> HIDE DEF x
    <3> QED BY <2>1
  <2>3. u.length > 1 <=> u.length \div 2 > 0
    BY <1>2, Halves
  <2> QED BY <2>2, <2>3
<1>11. rest = [val |-> u.length \div 2, cursor |-> c + 1 + Len(a)]
  <2>1. CASE u.length \div 2 > 0
    <3>1. read_varint(stream, c + 1) = [val |-> u.length \div 2, cursor |-> c + 1 + Len(a)]
      BY <2>1, <1>1, <1>8, VarintRead
    <3> QED BY <3>1, <2>1, <1>10
  <2>2. CASE ~(u.length \div 2 > 0)
    <3>1. a = <<>> /\ Len(a) = 0 /\ u.length \div 2 = 0
      BY <2>2, <1>2, <1>3
    <3> QED BY <3>1, <2>2, <1>10
  <2> QED BY <2>1, <2>2
<1>12. off = [val |-> u.offset, cursor |-> c + 1 + Len(a) + Len(b)]
  <2>0. rest.cursor = c + (1 + Len(a))
    BY <1>11, <1>5
  <2>1. CASE u.flag
    <3>1. read_varint(stream, c + (1 + Len(a))) = [val |-> u.offset, cursor |-> c + (1 + Len(a)) + Len(b)]
      <4>1. c + (1 + Len(a)) \in Nat
        BY <1>5
      <4> QED BY <4>1, <2>1, <1>1, <1>7, VarintRead
    <3> QED BY <3>1, <2>0, <2>1, <1>5, <1>10
  <2>2. CASE ~u.flag
    <3>1. b = <<>> /\ Len(b) = 0 /\ u.offset = 0
      BY <2>2, <1>2, <1>4
    <3> QED BY <3>1, <2>0, <2>2, <1>5, <1>10
  <2> QED BY <2>1, <2>2, <1>2
<1>13. read_unit(stream, c) =
         [unit |-> [flag |-> x.flag, offset |-> off.val, length |-> 2 * rest.val + x.sub],
          cursor |-> off.cursor]
  BY DEF read_unit
<1> HIDE DEF rest, off, x
<1>14. 2 * (u.length \div 2) + (u.length % 2) = u.length
  BY <1>2, Halves
<1>15. read_unit(stream, c) =
         [unit |-> [flag |-> u.flag, offset |-> u.offset, length |-> u.length],
          cursor |-> c + 1 + Len(a) + Len(b)]
  <2>1. rest.val = u.length \div 2
    BY <1>11
  <2>2. off.val = u.offset /\ off.cursor = c + 1 + Len(a) + Len(b)
    BY <1>12
  <2>3. 2 * rest.val + x.sub = u.length
    BY <2>1, <1>2, <1>10, <1>14
  <2>4. x.flag = u.flag
    BY <1>10
  <2> QED BY <2>2, <2>3, <2>4, <1>13
<1>16. c + 1 + Len(a) + Len(b) = c + Len(write_unit(u))
  BY <1>5, <1>6
<1> QED BY <1>2, <1>15, <1>16

-----------------------------------------------------------------------------
(* Instructions and literals that describe the buffer.                      *)

\* n bytes of a behind the first m are those of b behind the first k.
Same(a, m, b, k, n) == \A i \in 1..n : a[m + i] = b[k + i]

\* How far instructions, literals and the buffer are gone through.
Place == [inst : Nat \ {0}, data : Nat, new : Nat]

\* The unit u stands in the instructions i at the place s and makes the bytes
\* of the buffer w up to the place t, from the base b or the literals d.
Turn(b, w, i, d, u, s, t) ==
    /\ Stands(i, s.inst, write_unit(u)) /\ t.inst = s.inst + Len(write_unit(u))
    /\ t.new = s.new + u.length /\ t.new <= Len(w)
    /\ IF u.flag
       THEN /\ t.data = s.data
            /\ u.offset + u.length <= Len(b) /\ Same(b, u.offset, w, s.new, u.length)
       ELSE /\ t.data = s.data + u.length
            /\ t.data <= Len(d) /\ Same(d, s.data, w, s.new, u.length)

\* k units, from place to place, make the first n bytes of the buffer.
Script(b, w, i, d, n, k, us, at) ==
    /\ at[1] = [inst |-> 1, data |-> 0, new |-> 0]
    /\ at[k + 1] = [inst |-> Len(i) + 1, data |-> Len(d), new |-> n]
    /\ \A j \in 1..k : Turn(b, w, i, d, us[j], at[j], at[j + 1])
Describes(b, w, i, d, n) ==
    \E k \in Nat : \E us \in [1..k -> Units], at \in [1..k + 1 -> Place] :
      Script(b, w, i, d, n, k, us, at)

LEMMA DescribesNothing ==
    ASSUME NEW b, NEW w
    PROVE  Describes(b, w, <<>>, <<>>, 0)
<1> DEFINE start == [inst |-> 1, data |-> 0, new |-> 0]
           us == [j \in 1..0 |-> Literal(0)]
           at == [j \in 1..1 |-> start]
<1>1. us \in [1..0 -> Units] /\ at \in [1..0 + 1 -> Place]
  BY DEF Place
<1>2. Script(b, w, <<>>, <<>>, 0, 0, us, at)
  BY DEF Script
<1> HIDE DEF us, at
<1> QED BY <1>1, <1>2 DEF Describes

LEMMA StandsBefore ==
    ASSUME NEW S, NEW i \in Seq(S), NEW z \in Seq(S), NEW w, Len(w) \in Nat,
           NEW c \in Nat \ {0}, Stands(i, c, w)
    PROVE  Stands(i \o z, c, w)
<1>1. Len(i) \in Nat /\ Len(i \o z) = Len(i) + Len(z) /\ Len(z) \in Nat
  OBVIOUS
<1>2. \A k \in 1..Len(w) : c + k - 1 \in 1..Len(i)
  BY <1>1 DEF Stands
<1>3. \A m \in 1..Len(i) : (i \o z)[m] = i[m]
  OBVIOUS
<1> DEFINE y == i \o z
<1> HIDE DEF y
<1>4. Stands(y, c, w)
  BY <1>1, <1>2, <1>3 DEF Stands, y
<1> QED BY <1>4 DEF y

LEMMA StandsBehind ==
    ASSUME NEW S, NEW a \in Seq(S), NEW i \in Seq(S), NEW w, Len(w) \in Nat,
           NEW c \in Nat \ {0}, Stands(i, c, w)
    PROVE  Stands(a \o i, Len(a) + c, w)
<1>1. Len(a) \in Nat /\ Len(i) \in Nat /\ Len(a \o i) = Len(a) + Len(i)
  OBVIOUS
<1>2. \A m \in 1..Len(i) : (a \o i)[Len(a) + m] = i[m]
  OBVIOUS
<1> DEFINE y == a \o i
<1> HIDE DEF y
<1>3. \A k \in 1..Len(w) : y[Len(a) + c + k - 1] = w[k]
  <2> SUFFICES ASSUME NEW k \in 1..Len(w) PROVE y[Len(a) + c + k - 1] = w[k]
    OBVIOUS
  <2>1. c + k - 1 \in 1..Len(i) /\ i[c + k - 1] = w[k] /\ Len(a) + (c + k - 1) = Len(a) + c + k - 1
    BY <1>1 DEF Stands
  <2> QED BY <2>1, <1>2 DEF y
<1>4. Len(a) + c + Len(w) <= Len(y) + 1
  BY <1>1 DEF Stands, y
<1>5. Stands(y, Len(a) + c, w)
  BY <1>3, <1>4 DEF Stands
<1> QED BY <1>5 DEF y

\* w stands where it was appended.
LEMMA StandsAtEnd ==
    ASSUME NEW S, NEW a \in Seq(S), NEW w \in Seq(S)
    PROVE  Stands(a \o w, Len(a) + 1, w)
<1>1. Len(a) \in Nat /\ Len(w) \in Nat /\ Len(a \o w) = Len(a) + Len(w)
  OBVIOUS
<1>2. \A m \in 1..Len(w) : (a \o w)[Len(a) + m] = w[m]
  OBVIOUS
<1>3. \A m \in 1..Len(w) : Len(a) + 1 + m - 1 = Len(a) + m
  BY <1>1
<1> DEFINE y == a \o w
<1> HIDE DEF y
<1>4. Stands(y, Len(a) + 1, w)
  BY <1>1, <1>2, <1>3 DEF Stands, y
<1> QED BY <1>4 DEF y

\* One unit more.
LEMMA DescribesMore ==
    ASSUME NEW b, NEW w, NEW i \in Seq(Symbol), NEW d \in Seq(Bytes), NEW n \in Nat,
           Describes(b, w, i, d, n),
           NEW u \in Units, NEW z \in Seq(Bytes), n + u.length <= Len(w), Len(w) \in Nat,
           IF u.flag
           THEN z = <<>> /\ u.offset + u.length <= Len(b) /\ Same(b, u.offset, w, n, u.length)
           ELSE Len(z) = u.length /\ Same(z, 0, w, n, u.length)
    PROVE  Describes(b, w, i \o write_unit(u), d \o z, n + u.length)
<1>0. PICK k \in Nat : \E us \in [1..k -> Units], at \in [1..k + 1 -> Place] :
        Script(b, w, i, d, n, k, us, at)
  BY DEF Describes
<1>1. PICK us \in [1..k -> Units], at \in [1..k + 1 -> Place] :
        Script(b, w, i, d, n, k, us, at)
  BY <1>0
<1> DEFINE v == write_unit(u)
           ii == i \o v
           dd == d \o z
           end == [inst |-> Len(ii) + 1, data |-> Len(dd), new |-> n + u.length]
           uu == [j \in 1..k + 1 |-> IF j = k + 1 THEN u ELSE us[j]]
           aa == [j \in 1..(k + 1) + 1 |-> IF j = k + 2 THEN end ELSE at[j]]
<1>2. v \in Seq(Symbol) /\ Len(v) \in Nat \ {0}
  BY UnitWritten
<1>3. /\ ii \in Seq(Symbol) /\ Len(ii) = Len(i) + Len(v)
      /\ dd \in Seq(Bytes) /\ Len(dd) = Len(d) + Len(z)
      /\ Len(i) \in Nat /\ Len(d) \in Nat /\ Len(z) \in Nat
      /\ \A m \in 1..Len(d) : dd[m] = d[m]
      /\ \A m \in 1..Len(z) : dd[Len(d) + m] = z[m]
  <2>1. ii \in Seq(Symbol) /\ Len(ii) = Len(i) + Len(v)
    BY <1>2, ConcatProperties
  <2>2. dd \in Seq(Bytes) /\ Len(dd) = Len(d) + Len(z)
    BY ConcatProperties
  <2>3. \A m \in 1..Len(d) : dd[m] = d[m]
    OBVIOUS
  <2>4. \A m \in 1..Len(z) : dd[Len(d) + m] = z[m]
    OBVIOUS
  <2> QED BY <2>1, <2>2, <2>3, <2>4, LenProperties
<1>4. u.length \in Nat /\ u.flag \in BOOLEAN /\ u.offset \in Nat
  BY DEF Units
<1>5. uu \in [1..k + 1 -> Units] /\ uu[k + 1] = u /\ \A j \in 1..k : uu[j] = us[j]
  OBVIOUS
<1>6. end \in Place
  <2> HIDE DEF ii, dd, v
  <2>1. Len(ii) \in Nat /\ Len(dd) \in Nat
    BY <1>2, <1>3
  <2>2. n + u.length \in Nat
    BY <1>4
  <2>3. \A m \in Nat : m + 1 \in Nat \ {0}
    OBVIOUS
  <2>4. Len(ii) + 1 \in Nat \ {0}
    BY <2>1, <2>3
  <2> QED BY <2>1, <2>2, <2>4 DEF Place
<1>7. /\ aa \in [1..(k + 1) + 1 -> Place] /\ aa[k + 2] = end
      /\ \A j \in 1..k + 1 : aa[j] = at[j]
  <2> HIDE DEF end
  <2> QED BY <1>6
<1>8. Stands(ii, Len(i) + 1, v)
  BY <1>2, StandsAtEnd
<1>9. \A j \in 1..k : Turn(b, w, ii, dd, uu[j], aa[j], aa[j + 1])
  <2> SUFFICES ASSUME NEW j \in 1..k
               PROVE  Turn(b, w, ii, dd, us[j], at[j], at[j + 1])
    <3>1. \A j \in 1..k : j + 1 \in 1..k + 1 /\ j \in 1..k + 1
      OBVIOUS
    <3> HIDE DEF uu, aa, ii, dd
    <3> QED BY <3>1, <1>5, <1>7
  <2> DEFINE x == us[j]  s == at[j]  t == at[j + 1]
  <2>1. Turn(b, w, i, d, x, s, t)
    BY <1>1 DEF Script
  <2>2. x \in Units /\ s \in Place /\ t \in Place
    OBVIOUS
  <2> HIDE DEF x, s, t, ii, dd, v
  <2>3. Len(write_unit(x)) \in Nat \ {0} /\ s.inst \in Nat /\ s.data \in Nat /\ x.length \in Nat
    BY <2>2, UnitWritten DEF Place, Units
  <2>4. Stands(ii, s.inst, write_unit(x))
    <3>1. s.inst \in Nat \ {0} /\ Stands(i, s.inst, write_unit(x))
      BY <2>1, <2>2 DEF Turn, Place
    <3> QED BY <3>1, <2>3, <1>2, StandsBefore DEF ii
  <2>5. ~x.flag => t.data <= Len(dd) /\ Same(dd, s.data, w, s.new, x.length)
    <3> SUFFICES ASSUME ~x.flag PROVE t.data <= Len(dd) /\ Same(dd, s.data, w, s.new, x.length)
      OBVIOUS
    <3>1. t.data = s.data + x.length /\ t.data <= Len(d) /\ Same(d, s.data, w, s.new, x.length)
      BY <2>1 DEF Turn
    <3>4. Len(dd) = Len(d) + Len(z) /\ Len(d) \in Nat /\ Len(z) \in Nat
      BY <1>3
    <3>5. s.data \in Nat /\ x.length \in Nat
      BY <2>3
    <3>2. \A m \in 1..x.length : s.data + m \in 1..Len(d)
      <4>1. s.data + x.length <= Len(d)
        BY <3>1
      <4>2. \A p, q, r \in Nat : p + q <= r => \A m \in 1..q : p + m \in 1..r
        OBVIOUS
      <4> QED BY <4>1, <4>2, <3>4, <3>5
    <3>3. t.data <= Len(dd)
      BY <3>1, <3>4, <3>5
    <3> QED BY <3>1, <3>2, <3>3, <1>3 DEF Same
  <2>6. Turn(b, w, ii, dd, x, s, t)
    BY <2>1, <2>4, <2>5 DEF Turn
  <2> QED BY <2>6 DEF x, s, t
<1>10. at[k + 1] = [inst |-> Len(i) + 1, data |-> Len(d), new |-> n]
       /\ at[1] = [inst |-> 1, data |-> 0, new |-> 0]
  BY <1>1 DEF Script
<1>11. Turn(b, w, ii, dd, u, at[k + 1], end)
  <2> DEFINE s == at[k + 1]
  <2>1. s.inst = Len(i) + 1 /\ s.data = Len(d) /\ s.new = n
    BY <1>10
  <2>2. end.inst = Len(i) + 1 + Len(v) /\ end.data = Len(d) + Len(z) /\ end.new = n + u.length
    BY <1>2, <1>3
  <2>3. IF u.flag
        THEN end.data = s.data
        ELSE end.data = s.data + u.length /\ end.data <= Len(dd)
             /\ Same(dd, s.data, w, s.new, u.length)
    <3>1. CASE u.flag
      <4>1. Len(z) = 0
        BY <3>1
      <4> QED BY <3>1, <4>1, <1>3, <2>1, <2>2
    <3>2. CASE ~u.flag
      <4>1. Len(z) = u.length /\ Same(z, 0, w, n, u.length)
        BY <3>2
      <4>2. \A m \in 1..u.length : z[m] = z[0 + m]
        BY <1>4
      <4> HIDE DEF dd, end, ii
      <4>3. \A m \in 1..u.length : z[m] = w[n + m]
        BY <4>1, <4>2 DEF Same
      <4>4. \A m \in 1..u.length : dd[Len(d) + m] = z[m]
        BY <4>1, <1>3
      <4> HIDE DEF s
      <4>5. Same(dd, s.data, w, s.new, u.length)
        BY <4>3, <4>4, <2>1 DEF Same
      <4> QED BY <3>2, <4>1, <4>5, <1>3, <2>1, <2>2
    <3> QED BY <3>1, <3>2
  <2> HIDE DEF end, s, ii, dd
  <2>4. Stands(ii, s.inst, write_unit(u)) /\ end.inst = s.inst + Len(write_unit(u))
    BY <1>8, <2>1, <2>2 DEF v
  <2>5. u.flag => u.offset + u.length <= Len(b) /\ Same(b, u.offset, w, s.new, u.length)
    BY <2>1
  <2> QED BY <2>1, <2>2, <2>3, <2>4, <2>5 DEF Turn, s
<1>12. Script(b, w, ii, dd, n + u.length, k + 1, uu, aa)
  <2> HIDE DEF uu, aa, ii, dd
  <2>1. 1 \in 1..k + 1 /\ k + 1 \in 1..k + 1 /\ k + 1 + 1 = k + 2
    OBVIOUS
  <2>2. aa[1] = [inst |-> 1, data |-> 0, new |-> 0]
    BY <1>7, <1>10, <2>1
  <2>3. aa[k + 1 + 1] = [inst |-> Len(ii) + 1, data |-> Len(dd), new |-> n + u.length]
    BY <1>7, <2>1
  <2>4. Turn(b, w, ii, dd, uu[k + 1], aa[k + 1], aa[k + 1 + 1])
    <3> HIDE DEF end
    <3> QED BY <1>5, <1>7, <1>11, <2>1
  <2>5. \A j \in 1..k + 1 : j \in 1..k \/ j = k + 1
    OBVIOUS
  <2> HIDE DEF end
  <2>6. \A j \in 1..k + 1 : Turn(b, w, ii, dd, uu[j], aa[j], aa[j + 1])
    BY <1>9, <2>4, <2>5
  <2> QED BY <2>2, <2>3, <2>6 DEF Script
<1>13. k + 1 \in Nat
  OBVIOUS
<1> HIDE DEF uu, aa, ii, dd
<1>14. Describes(b, w, ii, dd, n + u.length)
  BY <1>5, <1>7, <1>12, <1>13 DEF Describes
<1> QED BY <1>14 DEF ii, dd, v

-----------------------------------------------------------------------------
(* Comparing bytes: pieces of buffers, and how far two of them agree.       *)

\* Longest is a number of bytes that are the same, within its limit.
LEMMA LongestIs ==
    ASSUME NEW limit \in Nat, NEW same
    PROVE  Longest(limit, same) \in 0..limit /\ 1..Longest(limit, same) \subseteq same
<1> DEFINE Ok(n) == 1..n \subseteq same /\ (n < limit => n + 1 \notin same)
           T == {m \in Nat : m <= limit /\ ~(\E n \in 0..limit : Ok(n)) => 1..m \subseteq same}
<1>1. \E n \in 0..limit : Ok(n)
  <2> SUFFICES ASSUME ~\E n \in 0..limit : Ok(n) PROVE FALSE
    OBVIOUS
  <2>1. 0 \in T
    OBVIOUS
  <2>2. \A m \in Nat : m \in T => m + 1 \in T
    <3> SUFFICES ASSUME NEW m \in Nat, m \in T, m + 1 <= limit
                 PROVE  1..m + 1 \subseteq same
      OBVIOUS
    <3>1. m \in 0..limit /\ 1..m \subseteq same /\ m < limit
      OBVIOUS
    <3>2. m + 1 \in same
      BY <3>1
    <3>3. \A j \in 1..m + 1 : j \in 1..m \/ j = m + 1
      OBVIOUS
    <3> QED BY <3>1, <3>2, <3>3
  <2> HIDE DEF T
  <2>3. \A m \in Nat : m \in T
    BY <2>1, <2>2, SetInduction
  <2>4. limit \in T
    BY <2>3
  <2>5. 1..limit \subseteq same
    BY <2>4 DEF T
  <2>6. Ok(limit) /\ limit \in 0..limit
    BY <2>5
  <2> QED BY <2>6
<1>2. Longest(limit, same) = CHOOSE n \in 0..limit : Ok(n)
  BY DEF Longest
<1> HIDE DEF Ok
<1>3. Longest(limit, same) \in 0..limit /\ Ok(Longest(limit, same))
  BY <1>1, <1>2, Zenon
<1> QED BY <1>3 DEF Ok

\* A piece of a buffer has the buffer's bytes.
LEMMA FromIs ==
    ASSUME NEW S, NEW b \in Seq(S), NEW o \in Nat, NEW n \in Nat, o + n <= Len(b)
    PROVE  /\ From(b, o, n) \in Seq(S) /\ Len(From(b, o, n)) = n
           /\ Same(From(b, o, n), 0, b, o, n)
<1> DEFINE lo == o + 1  hi == o + n  piece == SubSeq(b, lo, hi)
<1>1. Len(b) \in Nat /\ lo \in Int /\ hi \in Int /\ hi - lo + 1 = n
  OBVIOUS
<1>2. \A i \in lo..hi : b[i] \in S
  BY <1>1
<1>3. lo <= hi \/ n = 0
  OBVIOUS
<1>4. \A i \in 1..n : lo + i - 1 = o + i
  OBVIOUS
<1>5. piece = From(b, o, n)
  BY DEF From
<1> HIDE DEF lo, hi
<1>6. /\ piece \in Seq(S)
      /\ Len(piece) = IF lo <= hi THEN hi - lo + 1 ELSE 0
      /\ \A i \in 1..hi - lo + 1 : piece[i] = b[lo + i - 1]
  BY <1>1, <1>2, SubSeqProperties
<1> HIDE DEF piece
<1>7. Len(piece) = n
  BY <1>1, <1>3, <1>6 DEF lo, hi
<1>8. \A i \in 1..n : piece[0 + i] = b[o + i]
  <2> SUFFICES ASSUME NEW i \in 1..n PROVE piece[i] = b[o + i]
    OBVIOUS
  <2>1. piece[i] = b[lo + i - 1]
    BY <1>1, <1>6
  <2> QED BY <2>1, <1>4
<1> QED BY <1>5, <1>6, <1>7, <1>8 DEF Same

\* Equal pieces of two buffers are the same bytes.
LEMMA PiecesSame ==
    ASSUME NEW S, NEW a \in Seq(S), NEW b \in Seq(S), NEW o \in Nat, NEW p \in Nat, NEW n \in Nat,
           o + n <= Len(a), p + n <= Len(b), From(a, o, n) = From(b, p, n)
    PROVE  Same(a, o, b, p, n)
<1>1. Same(From(a, o, n), 0, a, o, n) /\ Same(From(b, p, n), 0, b, p, n)
  BY FromIs
<1> QED BY <1>1 DEF Same

\* What is the same up to one place and from there on is the same.
LEMMA SameJoin ==
    ASSUME NEW a, NEW b, NEW o \in Nat, NEW p \in Nat, NEW m \in Nat, NEW n \in Nat,
           Same(a, o, b, p, m), Same(a, o + m, b, p + m, n)
    PROVE  Same(a, o, b, p, m + n)
<1> SUFFICES ASSUME NEW i \in 1..m + n PROVE a[o + i] = b[p + i]
  BY DEF Same
<1>1. CASE i <= m
  BY <1>1 DEF Same
<1>2. CASE i > m
  <2>1. i - m \in 1..n /\ o + m + (i - m) = o + i /\ p + m + (i - m) = p + i
    BY <1>2
  <2> QED BY <2>1 DEF Same
<1> QED BY <1>1, <1>2

\* Equal blocks in a row are a piece of the same bytes.
LEMMA BlocksSame ==
    ASSUME NEW S, NEW a \in Seq(S), NEW b \in Seq(S), NEW o \in Nat, NEW p \in Nat, NEW n \in Nat,
           o + Block * n <= Len(a), p + Block * n <= Len(b),
           \A k \in 1..n : From(a, o + Block * (k - 1), Block) = From(b, p + Block * (k - 1), Block)
    PROVE  Same(a, o, b, p, Block * n)
<1> DEFINE T == {m \in Nat : m <= n => Same(a, o, b, p, Block * m)}
<1>0. Block \in Nat \ {0}
  BY GDeltaAssumption
<1>1. 0 \in T
  <2>1. Block * 0 = 0
    BY <1>0
  <2> QED BY <2>1 DEF Same
<1>2. \A m \in Nat : m \in T => m + 1 \in T
  <2> SUFFICES ASSUME NEW m \in Nat, m + 1 <= n, Same(a, o, b, p, Block * m)
               PROVE  Same(a, o, b, p, Block * (m + 1))
    OBVIOUS
  <2> DEFINE q == Block * m
  <2>1. q \in Nat /\ Block * (m + 1) = q + Block /\ Block * ((m + 1) - 1) = q
    BY <1>0
  <2>2. \E r \in Nat : Block * n = Block * (m + 1) + r
    <3>1. n - (m + 1) \in Nat
      OBVIOUS
    <3>2. Block * n = Block * (m + 1) + Block * (n - (m + 1))
      BY <1>0
    <3>3. Block * (n - (m + 1)) \in Nat
      BY <1>0, <3>1
    <3> QED BY <3>2, <3>3
  <2>3. From(a, o + q, Block) = From(b, p + q, Block)
    <3>1. m + 1 \in 1..n
      OBVIOUS
    <3>2. From(a, o + Block * ((m + 1) - 1), Block) = From(b, p + Block * ((m + 1) - 1), Block)
      BY <3>1
    <3> HIDE DEF q
    <3> QED BY <2>1, <3>2
  <2> HIDE DEF q
  <2>4. o + q + Block <= Len(a) /\ p + q + Block <= Len(b) /\ o + q \in Nat /\ p + q \in Nat
    <3>1. PICK r \in Nat : Block * n = q + Block + r
      BY <2>1, <2>2
    <3>2. Len(a) \in Nat /\ Len(b) \in Nat
      OBVIOUS
    <3>3. o + (q + Block + r) <= Len(a) /\ p + (q + Block + r) <= Len(b)
      BY <3>1
    <3> QED BY <3>2, <3>3, <2>1, <1>0
  <2>5. Same(a, o + q, b, p + q, Block)
    BY <2>3, <2>4, <1>0, PiecesSame
  <2>6. Same(a, o, b, p, q)
    BY DEF q
  <2>7. Same(a, o, b, p, q + Block)
    BY <2>1, <2>5, <2>6, <1>0, SameJoin
  <2> QED BY <2>1, <2>7
<1> HIDE DEF T
<1>3. \A m \in Nat : m \in T
  BY <1>1, <1>2, SetInduction
<1> QED BY <1>3 DEF T

-----------------------------------------------------------------------------
(* What gencode appends: a copy, a literal, or nothing.                     *)

\* Instructions and literals are sequences, and describe n bytes of w from b.
Well(b, w, i, d, n) ==
    /\ i \in Seq(Symbol) /\ d \in Seq(Bytes) /\ n \in Nat
    /\ Describes(b, w, i, d, n)

LEMMA WellNothing ==
    ASSUME NEW b, NEW w
    PROVE  Well(b, w, <<>>, <<>>, 0)
BY DescribesNothing, EmptySeq DEF Well

LEMMA AddCopy ==
    ASSUME NEW b, NEW w, NEW i, NEW d, NEW n, Well(b, w, i, d, n), Len(w) \in Nat,
           NEW o \in Nat, NEW l \in Nat,
           o + l <= Len(b), n + l <= Len(w), Same(b, o, w, n, l)
    PROVE  Well(b, w, i \o write_unit(Copy(o, l)), d, n + l)
<1> DEFINE u == Copy(o, l)
<1>1. u \in Units /\ u.flag /\ u.offset = o /\ u.length = l
  BY UnitKinds DEF Copy
<1> HIDE DEF u
<1>2. i \in Seq(Symbol) /\ d \in Seq(Bytes) /\ n \in Nat /\ Describes(b, w, i, d, n)
  BY DEF Well
<1>3. d \o <<>> = d /\ <<>> \in Seq(Bytes)
  BY <1>2, ConcatEmptySeq, EmptySeq
<1>4. Describes(b, w, i \o write_unit(u), d \o <<>>, n + l)
  BY <1>1, <1>2, <1>3, DescribesMore
<1>5. i \o write_unit(u) \in Seq(Symbol)
  BY <1>1, <1>2, UnitWritten, ConcatProperties
<1> QED BY <1>2, <1>3, <1>4, <1>5 DEF Well, u

LEMMA AddLiteral ==
    ASSUME NEW b, NEW w \in Seq(Bytes), NEW i, NEW d, NEW n, Well(b, w, i, d, n),
           NEW l \in Nat, n + l <= Len(w)
    PROVE  Well(b, w, i \o write_unit(Literal(l)), d \o From(w, n, l), n + l)
<1> DEFINE u == Literal(l)  z == From(w, n, l)
<1>1. u \in Units /\ ~u.flag /\ u.length = l
  BY UnitKinds DEF Literal
<1>2. i \in Seq(Symbol) /\ d \in Seq(Bytes) /\ n \in Nat /\ Describes(b, w, i, d, n)
  BY DEF Well
<1>3. z \in Seq(Bytes) /\ Len(z) = l /\ Same(z, 0, w, n, l)
  BY <1>2, FromIs
<1>4. Len(w) \in Nat
  OBVIOUS
<1> HIDE DEF u, z
<1>5. Describes(b, w, i \o write_unit(u), d \o z, n + l)
  BY <1>1, <1>2, <1>3, <1>4, DescribesMore
<1>6. i \o write_unit(u) \in Seq(Symbol) /\ d \o z \in Seq(Bytes)
  BY <1>1, <1>2, <1>3, UnitWritten, ConcatProperties
<1> QED BY <1>2, <1>5, <1>6 DEF Well, u, z

\* A copy of no bytes is left out.
LEMMA AddRun ==
    ASSUME NEW b, NEW w, NEW i, NEW d, NEW n, Well(b, w, i, d, n), Len(w) \in Nat,
           NEW o \in Nat, NEW l \in Nat,
           o + l <= Len(b), n + l <= Len(w), Same(b, o, w, n, l)
    PROVE  Well(b, w, i \o (IF l > 0 THEN write_unit(Copy(o, l)) ELSE <<>>), d, n + l)
<1>1. CASE l > 0
  BY <1>1, AddCopy
<1>2. CASE ~(l > 0)
  <2>1. i \o <<>> = i /\ n + l = n
    BY <1>2, ConcatEmptySeq DEF Well
  <2> QED BY <1>2, <2>1
<1> QED BY <1>1, <1>2

\* So is a literal of no bytes.
LEMMA AddRest ==
    ASSUME NEW b, NEW w \in Seq(Bytes), NEW i, NEW d, NEW n, Well(b, w, i, d, n),
           NEW l \in Nat, n + l <= Len(w)
    PROVE  Well(b, w, i \o (IF l > 0 THEN write_unit(Literal(l)) ELSE <<>>),
                d \o From(w, n, l), n + l)
<1>1. CASE l > 0
  BY <1>1, AddLiteral
<1>2. CASE ~(l > 0)
  <2>1. i \o <<>> = i /\ n + l = n /\ n \in Nat /\ l = 0
    BY <1>2, ConcatEmptySeq DEF Well
  <2>2. From(w, n, 0) = <<>>
    BY <2>1, SubSeqEmpty DEF From
  <2>3. d \o From(w, n, l) = d
    BY <2>1, <2>2, ConcatEmptySeq DEF Well
  <2> QED BY <1>2, <2>1, <2>3
<1> QED BY <1>1, <1>2

-----------------------------------------------------------------------------
(* The invariant of the coder.                                              *)

Phases == {"detect", "covered", "begin", "scan", "coded", "decode", "done"}

\* The unit that is put together; a literal behind a copy keeps its offset.
AnyUnit == [flag : BOOLEAN, offset : Nat, length : Nat]

LEMMA UnitsAreAny == Units \subseteq AnyUnit
BY DEF Units, AnyUnit

Kinds ==
    /\ base \in Seq(Bytes) /\ new \in Seq(Bytes)
    /\ phase \in Phases
    /\ head \in Nat /\ tail \in Nat
    /\ pos \in Nat /\ handled \in Nat /\ literal \in Nat /\ lastmatch \in Nat
    /\ unit \in AnyUnit
    /\ inst \in Seq(Symbol) /\ data \in Seq(Bytes)

\* Nothing is coded before the scan, nor decoded before gdecode.
Fresh ==
    /\ phase \in {"detect", "covered", "begin"} => data = <<>>
    /\ phase \notin {"decode", "done"} => out = <<>>

\* Head and tail are common to both buffers, and do not overlap in the new one.
HeadTail ==
    phase \in {"covered", "begin", "scan"} =>
      /\ head + tail <= Len(new) /\ head <= Len(base) /\ tail <= Len(base)
      /\ Same(base, 0, new, 0, head)
      /\ Same(base, Len(base) - tail, new, Len(new) - tail, tail)

\* What is written describes the buffer up to the pending literal.
Scanned ==
    phase = "scan" =>
      /\ handled = pos /\ pos <= Len(new) - tail
      /\ literal + (IF unit.flag THEN 0 ELSE unit.length) = pos
      /\ unit.flag => unit.length = 0
      /\ lastmatch <= pos
      /\ Describes(base, new, inst, data, literal)

\* The delta has the instructions and literals that describe all of it.
Coded ==
    phase \in {"coded", "decode"} =>
      /\ delta = write_varint(Len(inst)) \o inst \o data
      /\ Describes(base, new, inst, data, Len(new))

\* gdecode is at one of the places of the description.
Ahead == Len(write_varint(Len(inst)))
At(s) == /\ cursor = Ahead + s.inst
         /\ lits = Ahead + Len(inst) + s.data + 1
         /\ out = SubSeq(new, 1, s.new)
Reached ==
    \E k \in Nat : \E us \in [1..k -> Units], at \in [1..k + 1 -> Place] :
      /\ Script(base, new, inst, data, Len(new), k, us, at)
      /\ \E j \in 1..k + 1 : At(at[j])
Decoded == phase = "decode" => Reached

CoderInv == Kinds /\ Fresh /\ HeadTail /\ Scanned /\ Coded /\ Decoded /\ DecodeRestores

-----------------------------------------------------------------------------
(* gencode keeps it.                                                        *)

LEMMA InitIsFresh == Init => CoderInv
<1> SUFFICES ASSUME Init PROVE CoderInv
  OBVIOUS
<1>1. ASSUME NEW sizes, sizes \subseteq Nat, NEW b \in Buffers(sizes)
      PROVE  b \in Seq(Bytes)
  <2>1. PICK n \in sizes : b \in [1..n -> Bytes]
    BY <1>1 DEF Buffers
  <2>2. n \in Nat
    BY <1>1
  <2> QED BY <2>1, <2>2
<1>2. base \in Seq(Bytes) /\ new \in Seq(Bytes)
  BY <1>1, GDeltaAssumption DEF Init
<1>3. Literal(0) \in AnyUnit
  BY UnitKinds, UnitsAreAny
<1>4. Kinds
  BY <1>2, <1>3, EmptySeq DEF Init, Kinds, Phases
<1> QED BY <1>4 DEF Init, CoderInv, Fresh, HeadTail, Scanned, Coded, Decoded, DecodeRestores

LEMMA DetectKeeps ==
    ASSUME CoderInv, Detect
    PROVE  CoderInv'
<1> DEFINE size   == Smaller(Len(base), Len(new))
           sameb  == {i \in 1..size : base[i] = new[i]}
           samee  == {i \in 1..size : base[Len(base) + 1 - i] = new[Len(new) + 1 - i]}
           begins == Longest(size, sameb)
           beg    == IF begins > LongRun THEN begins ELSE 0
           ends   == Longest(size, samee)
           fits   == EndSize(ends, beg)
<1>1. /\ phase = "detect" /\ head' = beg
      /\ tail' = IF fits > LongRun THEN fits ELSE 0
      /\ phase' \in {"covered", "begin"}
      /\ UNCHANGED <<base, new, pos, handled, unit, literal, lastmatch, inst, data, delta,
                     cursor, lits, out>>
  BY DEF Detect, scanning, decoding
<1>2. /\ base \in Seq(Bytes) /\ new \in Seq(Bytes)
      /\ Len(base) \in Nat /\ Len(new) \in Nat
  BY DEF CoderInv, Kinds
<1>3. size \in Nat /\ size <= Len(base) /\ size <= Len(new)
  BY <1>2 DEF Smaller
<1> HIDE DEF size, sameb, samee
<1>4. /\ begins \in 0..size /\ 1..begins \subseteq sameb
      /\ ends \in 0..size /\ 1..ends \subseteq samee
  BY <1>3, LongestIs
<1> HIDE DEF begins, ends
<1>5. /\ beg \in Nat /\ beg <= size /\ \A i \in 1..beg : base[i] = new[i]
  BY <1>3, <1>4 DEF sameb
<1> HIDE DEF beg
<1>6. fits \in Nat /\ fits <= ends /\ fits <= Len(new) - beg
  BY <1>2, <1>3, <1>4, <1>5 DEF EndSize, Smaller
<1> HIDE DEF fits
<1>7. tail' \in Nat /\ tail' <= ends /\ tail' <= Len(new) - beg
  <2>1. ends \in Nat /\ 0 <= Len(new) - beg /\ 0 <= ends
    BY <1>2, <1>3, <1>4, <1>5
  <2>2. tail' = fits \/ tail' = 0
    BY <1>1
  <2> QED BY <2>1, <2>2, <1>6
<1>8. Same(base, Len(base) - tail', new, Len(new) - tail', tail')
  <2> SUFFICES ASSUME NEW i \in 1..tail'
               PROVE  base[Len(base) - tail' + i] = new[Len(new) - tail' + i]
    BY DEF Same
  <2> DEFINE j == tail' + 1 - i
  <2>1. j \in 1..ends /\ Len(base) + 1 - j = Len(base) - tail' + i
        /\ Len(new) + 1 - j = Len(new) - tail' + i
    <3>1. \A t \in Nat, p \in Nat, q \in Nat : \A x \in 1..t :
            /\ t + 1 - x \in 1..t /\ p + 1 - (t + 1 - x) = p - t + x
            /\ q + 1 - (t + 1 - x) = q - t + x
      OBVIOUS
    <3>2. \A x \in 1..tail' : x \in 1..ends
      BY <1>4, <1>7
    <3> QED BY <3>1, <3>2, <1>2, <1>7
  <2> HIDE DEF j
  <2> QED BY <2>1, <1>4 DEF samee
<1>9. Same(base, 0, new, 0, beg)
  BY <1>5 DEF Same
<1>10. Kinds' /\ Fresh'
  BY <1>1, <1>5, <1>7 DEF CoderInv, Kinds, Fresh, Phases
<1>11. HeadTail'
  <2>1. beg + tail' <= Len(new) /\ beg <= Len(base) /\ tail' <= Len(base)
    BY <1>2, <1>3, <1>4, <1>5, <1>7
  <2> QED BY <2>1, <1>1, <1>8, <1>9 DEF HeadTail
<1> QED BY <1>1, <1>10, <1>11 DEF CoderInv, Scanned, Coded, Decoded, DecodeRestores

\* The head, if there is one, comes first.
LEMMA HeadDescribes ==
    ASSUME CoderInv, phase \in {"covered", "begin"}
    PROVE  Well(base, new, HeadUnit, <<>>, head)
<1>1. /\ head \in Nat /\ head <= Len(base) /\ 0 + head <= Len(new) /\ 0 + head <= Len(base)
      /\ Same(base, 0, new, 0, head) /\ Len(new) \in Nat /\ 0 + head = head
  BY DEF CoderInv, Kinds, HeadTail
<1>2. Well(base, new, <<>> \o HeadUnit, <<>>, 0 + head)
  BY <1>1, WellNothing, AddRun DEF HeadUnit
<1>3. HeadUnit \in Seq(Symbol)
  <2>1. CASE head > 0
    BY <2>1, <1>1, UnitKinds, UnitWritten DEF HeadUnit
  <2>2. CASE ~(head > 0)
    BY <2>2, EmptySeq DEF HeadUnit
  <2> QED BY <2>1, <2>2
<1>4. <<>> \o HeadUnit = HeadUnit
  BY <1>3, ConcatEmptySeq
<1> QED BY <1>1, <1>2, <1>4

\* The tail, if there is one, comes last.
LEMMA TailDescribes ==
    ASSUME CoderInv, phase \in {"covered", "scan"},
           NEW i, NEW d, Well(base, new, i, d, Len(new) - tail)
    PROVE  Well(base, new, i \o TailUnit, d, Len(new))
<1>1. /\ tail \in Nat /\ tail <= Len(base) /\ tail <= Len(new)
      /\ Same(base, Len(base) - tail, new, Len(new) - tail, tail)
      /\ Len(new) \in Nat /\ Len(base) \in Nat
  BY DEF CoderInv, Kinds, HeadTail
<1> DEFINE o == Len(base) - tail  n == Len(new) - tail
<1>2. o \in Nat /\ o + tail <= Len(base) /\ n + tail <= Len(new) /\ n + tail = Len(new)
  BY <1>1
<1> HIDE DEF o, n
<1>3. Well(base, new, i, d, n) /\ Same(base, o, new, n, tail)
  BY <1>1 DEF o, n
<1>4. Well(base, new, i \o (IF tail > 0 THEN write_unit(Copy(o, tail)) ELSE <<>>), d, n + tail)
  BY <1>1, <1>2, <1>3, AddRun
<1> QED BY <1>2, <1>4 DEF TailUnit, o

LEMMA EmitKeeps ==
    ASSUME CoderInv, NEW i, NEW d, Emit(i, d), Well(base, new, i, d, Len(new)),
           phase \notin {"decode", "done"},
           UNCHANGED <<base, new, head, tail, pos, handled, literal, lastmatch,
                       cursor, lits, out>>,
           unit' \in AnyUnit
    PROVE  CoderInv'
<1>1. /\ inst' = i /\ data' = d /\ delta' = write_varint(Len(i)) \o i \o d /\ phase' = "coded"
  BY DEF Emit
<1>2. i \in Seq(Symbol) /\ d \in Seq(Bytes) /\ Describes(base, new, i, d, Len(new))
  BY DEF Well
<1>3. Kinds' /\ Fresh'
  BY <1>1, <1>2 DEF CoderInv, Kinds, Fresh, Phases
<1>4. Coded'
  BY <1>1, <1>2 DEF Coded
<1> QED BY <1>1, <1>3, <1>4 DEF CoderInv, HeadTail, Scanned, Decoded, DecodeRestores

LEMMA CoveredKeeps ==
    ASSUME CoderInv, Covered
    PROVE  CoderInv'
<1> DEFINE m == IF Middle > 0 THEN write_unit(Literal(Middle)) ELSE <<>>
           d == IF Middle > 0 THEN From(new, head, Middle) ELSE <<>>
<1>1. /\ phase = "covered" /\ Emit(HeadUnit \o m \o TailUnit, d)
      /\ UNCHANGED <<base, new, head, tail, pos, handled, unit, literal, lastmatch,
                     cursor, lits, out>>
  BY DEF Covered, scanning, decoding
<1>2. /\ head \in Nat /\ tail \in Nat /\ new \in Seq(Bytes) /\ Len(new) \in Nat
      /\ head + tail <= Len(new) /\ unit \in AnyUnit
  BY <1>1 DEF CoderInv, Kinds, HeadTail
<1>3. /\ Middle \in Nat /\ head + Middle <= Len(new) /\ head + Middle = Len(new) - tail
  BY <1>2 DEF Middle
<1>4. Well(base, new, HeadUnit, <<>>, head)
  BY <1>1, HeadDescribes
<1>5. d = <<>> \o From(new, head, Middle)
  <2>1. From(new, head, Middle) \in Seq(Bytes)
    BY <1>2, <1>3, FromIs
  <2>2. Middle = 0 => From(new, head, Middle) = <<>>
    BY <1>2, SubSeqEmpty DEF From
  <2> QED BY <1>3, <2>1, <2>2, ConcatEmptySeq
<1> HIDE DEF d
<1>6. Well(base, new, HeadUnit \o m, d, head + Middle)
  BY <1>2, <1>3, <1>4, <1>5, AddRest
<1> HIDE DEF m
<1>7. Well(base, new, (HeadUnit \o m) \o TailUnit, d, Len(new))
  BY <1>1, <1>3, <1>6, TailDescribes
<1> QED BY <1>1, <1>2, <1>7, EmitKeeps

LEMMA BeginKeeps ==
    ASSUME CoderInv, Begin
    PROVE  CoderInv'
<1>1. /\ phase = "begin" /\ phase' = "scan" /\ inst' = HeadUnit
      /\ unit' = [Literal(0) EXCEPT !.flag = head > 0]
      /\ pos' = head /\ handled' = head /\ literal' = head /\ lastmatch' = head
      /\ UNCHANGED <<base, new, head, tail, data, delta, cursor, lits, out>>
  BY DEF Begin, decoding
<1>2. /\ head \in Nat /\ tail \in Nat /\ Len(new) \in Nat /\ head + tail <= Len(new) /\ data = <<>>
  BY <1>1 DEF CoderInv, Kinds, HeadTail, Fresh
<1>3. unit' \in AnyUnit /\ unit'.length = 0
  <2>1. unit' = [flag |-> head > 0, offset |-> 0, length |-> 0]
    BY <1>1 DEF Literal
  <2>2. unit' = Copy(0, 0) \/ unit' = Literal(0)
    <3>1. CASE head > 0
      BY <2>1, <3>1, Zenon DEF Copy
    <3>2. CASE ~(head > 0)
      <4>1. (head > 0) = FALSE
        BY <3>2
      <4> QED BY <2>1, <4>1, Zenon DEF Literal
    <3> QED BY <3>1, <3>2
  <2>3. unit'.length = 0
    BY <2>1
  <2> QED BY <2>2, <2>3, UnitKinds, UnitsAreAny
<1>4. Well(base, new, HeadUnit, <<>>, head)
  BY <1>1, HeadDescribes
<1>5. HeadUnit \in Seq(Symbol) /\ Describes(base, new, HeadUnit, <<>>, head)
  BY <1>4 DEF Well
<1>6. Kinds' /\ Fresh' /\ HeadTail'
  BY <1>1, <1>2, <1>3, <1>5 DEF CoderInv, Kinds, Fresh, HeadTail, Phases
<1>7. Scanned'
  BY <1>1, <1>2, <1>3, <1>5 DEF Scanned
<1> QED BY <1>1, <1>6, <1>7 DEF CoderInv, Coded, Decoded, DecodeRestores

\* What the scan has at hand at each word.
LEMMA AtWord ==
    ASSUME CoderInv, Scanning
    PROVE  /\ phase = "scan" /\ base \in Seq(Bytes) /\ new \in Seq(Bytes) /\ unit \in AnyUnit
           /\ Len(base) \in Nat /\ Len(new) \in Nat /\ head \in Nat /\ tail \in Nat
           /\ pos \in Nat /\ literal \in Nat /\ lastmatch \in Nat /\ lastmatch <= pos
           /\ unit.length \in Nat /\ unit.flag \in BOOLEAN
           /\ handled = pos /\ literal + unit.length = pos
           /\ unit.flag => unit.length = 0
           /\ pos + WordSize <= Len(new) - tail /\ tail <= Len(new)
           /\ WordSize \in Nat \ {0} /\ Block \in Nat \ {0} /\ SkipUnit \in Nat \ {0}
           /\ Well(base, new, inst, data, literal)
<1>1. WordSize \in Nat \ {0} /\ Block \in Nat \ {0} /\ SkipUnit \in Nat \ {0}
  BY GDeltaAssumption
<1>2. /\ phase = "scan" /\ pos + WordSize <= Len(new) - tail
      /\ base \in Seq(Bytes) /\ new \in Seq(Bytes) /\ unit \in AnyUnit
      /\ head \in Nat /\ tail \in Nat /\ pos \in Nat /\ literal \in Nat /\ lastmatch \in Nat
      /\ inst \in Seq(Symbol) /\ data \in Seq(Bytes)
  BY DEF CoderInv, Kinds, Scanning
<1>3. /\ handled = pos /\ literal + (IF unit.flag THEN 0 ELSE unit.length) = pos
      /\ unit.flag => unit.length = 0
      /\ lastmatch <= pos /\ Describes(base, new, inst, data, literal)
  BY <1>2 DEF CoderInv, Scanned
<1>4. head + tail <= Len(new) /\ Len(base) \in Nat /\ Len(new) \in Nat
  BY <1>2 DEF CoderInv, HeadTail
<1>5. unit.length \in Nat /\ unit.flag \in BOOLEAN
  BY <1>2 DEF AnyUnit
<1>6. literal + unit.length = pos
  BY <1>3, <1>5
<1>7. Well(base, new, inst, data, literal)
  BY <1>2, <1>3 DEF Well
<1> QED BY <1>1, <1>2, <1>3, <1>4, <1>5, <1>6, <1>7

\* A position of the table has a word of the base behind it.
LEMMA HashedHasWord ==
    ASSUME CoderInv, Scanning, NEW o \in baseoffsets, o # 0
    PROVE  o \in Nat /\ o + WordSize <= Len(base) - tail
<1> DEFINE len == Len(base) - head - tail
<1>1. /\ Len(base) \in Nat /\ head \in Nat /\ tail \in Nat
      /\ WordSize \in Nat \ {0} /\ Stride \in Nat \ {0}
  BY AtWord, GDeltaAssumption
<1>2. o \in Hashed
  BY DEF baseoffsets
<1>3. len >= WordSize
  BY <1>1, <1>2 DEF Hashed
<1>4. PICK i \in 0..len : o = head + i /\ i < len - WordSize - (Stride - 1)
  BY <1>1, <1>2, <1>3 DEF Hashed
<1> QED BY <1>1, <1>4

\* The scan goes on behind a copy.
LEMMA CopiedKeeps ==
    ASSUME CoderInv, Scanning, NEW i, NEW d, NEW p \in Nat, NEW q \in Nat,
           Well(base, new, i, d, p), p <= Len(new) - tail,
           inst' = i, data' = d, unit' = Copy(q, 0),
           pos' = p, handled' = p, literal' = p, lastmatch' = p,
           UNCHANGED <<base, new, phase, head, tail, delta, cursor, lits, out>>
    PROVE  CoderInv'
<1>1. phase = "scan" /\ i \in Seq(Symbol) /\ d \in Seq(Bytes) /\ Describes(base, new, i, d, p)
  BY DEF Scanning, Well
<1>2. unit' \in AnyUnit /\ unit'.flag /\ unit'.length = 0
  BY UnitKinds, UnitsAreAny DEF Copy
<1>3. Kinds' /\ Fresh' /\ HeadTail'
  BY <1>1, <1>2 DEF CoderInv, Kinds, Fresh, HeadTail
<1>4. Scanned'
  BY <1>1, <1>2 DEF Scanned
<1> QED BY <1>1, <1>3, <1>4 DEF CoderInv, Coded, Decoded, DecodeRestores

LEMMA MatchKeeps ==
    ASSUME CoderInv, NEW o \in baseoffsets, Match(o)
    PROVE  CoderInv'
<1> DEFINE ahead == Smaller(Len(base) - tail - o, Len(new) - tail - pos) - WordSize
           samef == {j \in 1..ahead : base[o + WordSize + j] = new[pos + WordSize + j]}
           more  == Longest(ahead, samef)
           len   == WordSize + more
           pending == ~unit.flag /\ unit.length > 0
           behind  == Smaller(o, unit.length)
           sameb == {k \in 1..behind : base[o - k + 1] = new[pos - k + 1]}
           back == IF pending THEN Longest(behind, sameb) ELSE 0
           left == IF pending THEN unit.length - back ELSE 0
<1>1. /\ Scanning /\ Matches(o)
      /\ inst' = inst \o (IF left > 0 THEN write_unit(Literal(left)) ELSE <<>>)
                      \o write_unit(Copy(o - back, len + back))
      /\ data' = data \o From(new, literal, left)
      /\ unit' = Copy(o - back, 0)
      /\ pos' = pos + len /\ handled' = handled + len
      /\ literal' = pos' /\ lastmatch' = pos'
      /\ UNCHANGED <<base, new, phase, head, tail, delta, cursor, lits, out>>
  BY Zenon DEF Match, decoding
<1>2. /\ base \in Seq(Bytes) /\ new \in Seq(Bytes) /\ unit \in AnyUnit
      /\ Len(base) \in Nat /\ Len(new) \in Nat /\ tail \in Nat /\ pos \in Nat /\ literal \in Nat
      /\ unit.length \in Nat /\ unit.flag \in BOOLEAN
      /\ handled = pos /\ literal + unit.length = pos
      /\ pos + WordSize <= Len(new) - tail /\ WordSize \in Nat \ {0}
      /\ unit.flag => unit.length = 0
      /\ Well(base, new, inst, data, literal)
  BY <1>1, AtWord
<1>3. o \in Nat /\ o # 0 /\ o + WordSize <= Len(base) - tail
  BY <1>1, HashedHasWord DEF Matches
<1>4. ahead \in Nat /\ o + WordSize + ahead <= Len(base) /\ pos + WordSize + ahead <= Len(new) - tail
  <2> DEFINE a == Len(base) - tail - o  b == Len(new) - tail - pos
  <2>1. a \in Int /\ b \in Int /\ WordSize <= a /\ WordSize <= b
    BY <1>2, <1>3
  <2>2. Smaller(a, b) \in Int /\ WordSize <= Smaller(a, b) /\ Smaller(a, b) <= a /\ Smaller(a, b) <= b
    BY <1>2, <2>1 DEF Smaller
  <2> HIDE DEF a, b
  <2>3. ahead = Smaller(a, b) - WordSize
    BY DEF a, b
  <2> HIDE DEF ahead
  <2>4. ahead \in Nat /\ WordSize + ahead <= a /\ WordSize + ahead <= b
    BY <1>2, <2>2, <2>3, <2>1
  <2> QED BY <1>2, <1>3, <2>4 DEF a, b
<1> HIDE DEF ahead, samef
<1>5. more \in 0..ahead /\ 1..more \subseteq samef
  BY <1>4, LongestIs
<1> HIDE DEF more
<1>6. /\ more \in Nat /\ o + WordSize + more <= Len(base) /\ pos + WordSize + more <= Len(new) - tail
  BY <1>2, <1>3, <1>4, <1>5
<1>7. Same(base, o + WordSize, new, pos + WordSize, more)
  BY <1>5 DEF samef, Same
<1>8. Same(base, o, new, pos, WordSize)
  <2>1. From(base, o, WordSize) = From(new, pos, WordSize)
    BY <1>1 DEF Matches
  <2>2. o + WordSize <= Len(base) /\ pos + WordSize <= Len(new)
    BY <1>2, <1>3
  <2> QED BY <1>2, <1>3, <2>1, <2>2, PiecesSame
<1>9. Same(base, o, new, pos, WordSize + more)
  BY <1>2, <1>3, <1>6, <1>7, <1>8, SameJoin
<1>10. behind \in Nat /\ behind <= o /\ behind <= unit.length
  BY <1>2, <1>3 DEF Smaller
<1> HIDE DEF behind, sameb
<1>11. back \in Nat /\ back <= behind /\ 1..back \subseteq sameb
  <2>1. CASE pending
    BY <2>1, <1>10, LongestIs
  <2>2. CASE ~pending
    BY <2>2, <1>10
  <2> QED BY <2>1, <2>2
<1>12. left = unit.length - back
  <2>1. ~pending => unit.length = 0 /\ back = 0
    BY <1>2
  <2> QED BY <1>2, <2>1
<1> HIDE DEF left, back, pending
<1>13. /\ left \in Nat /\ literal + left = pos - back /\ pos - back \in Nat /\ o - back \in Nat
       /\ literal + left <= Len(new) /\ len + back \in Nat
       /\ o - back + (len + back) <= Len(base) /\ pos - back + (len + back) = pos + len
       /\ pos + len <= Len(new) - tail /\ pos + len <= Len(new) /\ pos + len \in Nat
  <2>1. back <= o /\ back <= unit.length
    BY <1>2, <1>3, <1>10, <1>11
  <2>2. left \in Nat /\ literal + left = pos - back /\ pos - back \in Nat /\ o - back \in Nat
    BY <1>2, <1>3, <1>11, <1>12, <2>1
  <2>3. len \in Nat /\ o + len <= Len(base) /\ pos + len <= Len(new) - tail
    BY <1>2, <1>3, <1>6
  <2> HIDE DEF len
  <2>4. o - back + (len + back) <= Len(base) /\ pos - back + (len + back) = pos + len
    BY <1>2, <1>3, <1>11, <2>3
  <2>5. pos + len <= Len(new) /\ pos + len \in Nat /\ len + back \in Nat
    BY <1>2, <1>11, <2>3
  <2>6. literal + left <= Len(new)
    BY <1>2, <1>11, <2>2, <2>3, <2>5
  <2> QED BY <2>2, <2>3, <2>4, <2>5, <2>6
<1>14. Same(base, o - back, new, pos - back, back)
  <2> SUFFICES ASSUME NEW i \in 1..back
               PROVE  base[o - back + i] = new[pos - back + i]
    BY DEF Same
  <2> DEFINE k == back + 1 - i
  <2>1. k \in 1..back /\ o - k + 1 = o - back + i /\ pos - k + 1 = pos - back + i
    BY <1>2, <1>3, <1>11
  <2> HIDE DEF k
  <2> QED BY <2>1, <1>11 DEF sameb
<1>15. Same(base, o - back, new, pos - back, back + len)
  <2>1. o - back + back = o /\ pos - back + back = pos /\ len \in Nat
    BY <1>2, <1>3, <1>6, <1>11
  <2>2. Same(base, o - back + back, new, pos - back + back, len)
    BY <1>9, <2>1
  <2> HIDE DEF len
  <2> QED BY <1>11, <1>13, <1>14, <2>1, <2>2, SameJoin
<1>16. back + len = len + back
  BY <1>2, <1>6, <1>11
<1> HIDE DEF len
<1> DEFINE i1 == inst \o (IF left > 0 THEN write_unit(Literal(left)) ELSE <<>>)
           d1 == data \o From(new, literal, left)
<1>17. Well(base, new, i1, d1, literal + left)
  BY <1>2, <1>13, AddRest
<1> HIDE DEF i1, d1
<1>18. Well(base, new, i1 \o write_unit(Copy(o - back, len + back)), d1, pos - back + (len + back))
  BY <1>2, <1>13, <1>15, <1>16, <1>17, AddCopy
<1>19. /\ inst' = i1 \o write_unit(Copy(o - back, len + back)) /\ data' = d1
       /\ pos' = pos + len /\ handled' = pos + len /\ literal' = pos + len /\ lastmatch' = pos + len
  BY <1>1, <1>2, Zenon DEF i1, d1
<1> QED BY <1>1, <1>13, <1>18, <1>19, CopiedKeeps

LEMMA ReverseMatchKeeps ==
    ASSUME CoderInv, NEW o \in baseoffsets, ReverseMatch(o)
    PROVE  CoderInv'
<1> DEFINE same   == {i \in 1..WordSize : base[o + WordSize + 1 - i] = new[pos + WordSize + 1 - i]}
           alike  == EndsAlike(o)
           front  == WordSize - alike
           ahead  == Smaller((Len(base) - o - WordSize) \div Block,
                             (Len(new) - tail - pos - WordSize) \div Block)
           sameb  == {b \in 1..ahead : From(base, o + WordSize + Block * (b - 1), Block)
                                         = From(new, pos + WordSize + Block * (b - 1), Block)}
           blocks == Longest(ahead, sameb)
           more   == Block * blocks
           length == unit.length + front
<1>1. /\ Scanning /\ ReverseMatches(o)
      /\ inst' = inst \o write_unit(Literal(length)) \o write_unit(Copy(o + front, alike + more))
      /\ data' = data \o From(new, literal, length)
      /\ unit' = Copy(o + front, 0)
      /\ pos' = pos + WordSize + more /\ handled' = handled + WordSize + more
      /\ literal' = pos' /\ lastmatch' = pos'
      /\ UNCHANGED <<base, new, phase, head, tail, delta, cursor, lits, out>>
  BY Zenon DEF ReverseMatch, decoding
<1>2. /\ base \in Seq(Bytes) /\ new \in Seq(Bytes) /\ unit \in AnyUnit
      /\ Len(base) \in Nat /\ Len(new) \in Nat /\ tail \in Nat /\ pos \in Nat /\ literal \in Nat
      /\ unit.length \in Nat /\ handled = pos /\ literal + unit.length = pos
      /\ pos + WordSize <= Len(new) - tail
      /\ WordSize \in Nat \ {0} /\ Block \in Nat \ {0}
      /\ Well(base, new, inst, data, literal)
  BY <1>1, AtWord
<1>3. o \in Nat /\ o # 0 /\ o + WordSize <= Len(base)
  <2>1. o # 0 /\ tail \in Nat
    BY <1>1, <1>2 DEF ReverseMatches
  <2>2. o \in Nat /\ o + WordSize <= Len(base) - tail
    BY <1>1, <2>1, HashedHasWord
  <2> QED BY <1>2, <2>1, <2>2
<1>4. alike \in 0..WordSize /\ 1..alike \subseteq same
  <2>1. alike = Longest(WordSize, same)
    BY DEF EndsAlike
  <2> HIDE DEF alike, same
  <2> QED BY <1>2, <2>1, LongestIs
<1> HIDE DEF alike, same
<1>5. /\ front \in Nat /\ front + alike = WordSize /\ alike \in Nat
  BY <1>2, <1>4
<1> HIDE DEF front
<1>6. Same(base, o + front, new, pos + front, alike)
  <2> SUFFICES ASSUME NEW i \in 1..alike
               PROVE  base[o + front + i] = new[pos + front + i]
    BY DEF Same
  <2> DEFINE k == alike + 1 - i
  <2>1. k \in 1..alike /\ o + WordSize + 1 - k = o + front + i
        /\ pos + WordSize + 1 - k = pos + front + i
    BY <1>2, <1>3, <1>5
  <2> HIDE DEF k
  <2> QED BY <2>1, <1>4 DEF same
<1>7. /\ ahead \in Nat /\ Block * ahead <= Len(base) - o - WordSize
      /\ Block * ahead <= Len(new) - tail - pos - WordSize
  <2> DEFINE a == Len(base) - o - WordSize  b == Len(new) - tail - pos - WordSize
  <2>1. a \in Nat /\ b \in Nat
    BY <1>2, <1>3
  <2> HIDE DEF a, b
  <2>2. ahead = Smaller(a \div Block, b \div Block)
    BY DEF a, b
  <2> HIDE DEF ahead
  <2>3. \A x \in Nat : x \div Block \in Nat /\ Block * (x \div Block) <= x
    BY <1>2
  <2>4. ahead \in Nat /\ ahead <= a \div Block /\ ahead <= b \div Block
    BY <2>1, <2>2, <2>3 DEF Smaller
  <2>5. \A x, y \in Nat : x <= y => Block * x <= Block * y
    <3> SUFFICES ASSUME NEW x \in Nat, NEW y \in Nat, x <= y PROVE Block * x <= Block * y
      OBVIOUS
    <3>1. y - x \in Nat /\ Block * y = Block * x + Block * (y - x)
      BY <1>2
    <3>2. Block * (y - x) \in Nat /\ Block * x \in Nat
      BY <1>2, <3>1
    <3> QED BY <3>1, <3>2
  <2>6. Block * ahead \in Nat /\ Block * ahead <= Block * (a \div Block)
        /\ Block * ahead <= Block * (b \div Block)
    <3>1. a \div Block \in Nat /\ b \div Block \in Nat
      BY <2>1, <2>3
    <3>2. Block * ahead \in Nat
      BY <1>2, <2>4
    <3> QED BY <2>4, <2>5, <3>1, <3>2
  <2>7. Block * (a \div Block) \in Nat /\ Block * (b \div Block) \in Nat
    <3>1. a \div Block \in Nat /\ b \div Block \in Nat
      BY <2>1, <2>3
    <3>2. \A x \in Nat : Block * x \in Nat
      BY <1>2
    <3> HIDE DEF a, b
    <3> QED BY <3>1, <3>2
  <2>8. Block * ahead <= a /\ Block * ahead <= b
    BY <2>1, <2>3, <2>6, <2>7
  <2> QED BY <2>4, <2>8 DEF a, b
<1> HIDE DEF ahead, sameb
<1>8. blocks \in 0..ahead /\ 1..blocks \subseteq sameb
  BY <1>7, LongestIs
<1> HIDE DEF blocks
<1>9. /\ more \in Nat /\ o + WordSize + more <= Len(base) /\ pos + WordSize + more <= Len(new) - tail
  <2>1. blocks \in Nat /\ ahead - blocks \in Nat
    BY <1>7, <1>8
  <2>2. Block * ahead = Block * blocks + Block * (ahead - blocks)
    BY <1>2, <1>7, <2>1
  <2>3. Block * (ahead - blocks) \in Nat /\ Block * blocks \in Nat
    BY <1>2, <2>1
  <2> DEFINE x == Block * ahead  y == Block * (ahead - blocks)
  <2> HIDE DEF x, y, more
  <2>4. x = more + y /\ more \in Nat /\ y \in Nat
    BY <2>2, <2>3 DEF x, y, more
  <2>5. x <= Len(base) - o - WordSize /\ x <= Len(new) - tail - pos - WordSize
    BY <1>7 DEF x
  <2> QED BY <1>2, <1>3, <2>4, <2>5
<1>10. Same(base, o + WordSize, new, pos + WordSize, more)
  <2>1. \A k \in 1..blocks : From(base, o + WordSize + Block * (k - 1), Block)
                               = From(new, pos + WordSize + Block * (k - 1), Block)
    BY <1>8 DEF sameb
  <2>2. blocks \in Nat /\ o + WordSize \in Nat /\ pos + WordSize \in Nat
    BY <1>2, <1>3, <1>7, <1>8
  <2>3. o + WordSize + Block * blocks <= Len(base) /\ pos + WordSize + Block * blocks <= Len(new)
    <3> HIDE DEF more
    <3>1. o + WordSize + more <= Len(base) /\ pos + WordSize + more <= Len(new)
      BY <1>2, <1>9
    <3> QED BY <3>1 DEF more
  <2> QED BY <1>2, <2>1, <2>2, <2>3, BlocksSame
<1> HIDE DEF more
<1>11. Same(base, o + front, new, pos + front, alike + more)
  <2>1. o + front + alike = o + WordSize /\ pos + front + alike = pos + WordSize
        /\ o + front \in Nat /\ pos + front \in Nat
    BY <1>2, <1>3, <1>5
  <2> QED BY <1>5, <1>6, <1>9, <1>10, <2>1, SameJoin
<1>12. /\ length \in Nat /\ literal + length = pos + front /\ pos + front \in Nat
       /\ literal + length <= Len(new) /\ o + front \in Nat /\ alike + more \in Nat
       /\ o + front + (alike + more) <= Len(base)
       /\ pos + front + (alike + more) = pos + WordSize + more
       /\ pos + WordSize + more <= Len(new) /\ pos + WordSize + more \in Nat
  <2>1. length \in Nat /\ literal + length = pos + front /\ pos + front \in Nat
        /\ o + front \in Nat /\ alike + more \in Nat
    <3>1. length \in Nat
      BY <1>2, <1>5
    <3>2. literal + length = pos + front
      <4>1. literal + (unit.length + front) = literal + unit.length + front
        BY <1>2, <1>5
      <4> QED BY <1>2, <4>1
    <3> HIDE DEF length
    <3>3. pos + front \in Nat /\ o + front \in Nat /\ alike + more \in Nat
      BY <1>2, <1>3, <1>5, <1>9
    <3> QED BY <3>1, <3>2, <3>3
  <2>2. pos + front + (alike + more) = pos + WordSize + more
        /\ o + front + (alike + more) = o + WordSize + more
    BY <1>2, <1>3, <1>5, <1>9
  <2>3. pos + WordSize + more <= Len(new) /\ pos + WordSize + more \in Nat
    BY <1>2, <1>9
  <2>4. pos + front <= pos + WordSize + more
    BY <1>2, <1>5, <1>9
  <2> HIDE DEF length
  <2>5. literal + length <= Len(new)
    BY <1>2, <2>1, <2>3, <2>4
  <2> QED BY <1>9, <2>1, <2>2, <2>3, <2>5
<1> HIDE DEF length
<1> DEFINE i1 == inst \o write_unit(Literal(length))
           d1 == data \o From(new, literal, length)
<1>13. Well(base, new, i1, d1, literal + length)
  BY <1>2, <1>12, AddLiteral
<1> HIDE DEF i1, d1
<1>14. Well(base, new, i1 \o write_unit(Copy(o + front, alike + more)), d1,
            pos + front + (alike + more))
  BY <1>2, <1>11, <1>12, <1>13, AddCopy
<1>15. /\ inst' = i1 \o write_unit(Copy(o + front, alike + more)) /\ data' = d1
       /\ pos' = pos + WordSize + more /\ handled' = pos + WordSize + more
       /\ literal' = pos + WordSize + more /\ lastmatch' = pos + WordSize + more
  BY <1>1, <1>2, Zenon DEF i1, d1
<1> QED BY <1>1, <1>9, <1>12, <1>14, <1>15, CopiedKeeps

\* A skip stays before the tail.
LEMMA SkipIs ==
    ASSUME CoderInv, Scanning
    PROVE  Skip \in Nat /\ pos + 1 + Skip <= Len(new) - tail
<1> DEFINE step  == (pos + 1 - lastmatch) \div SkipUnit
           limit == Len(new) - tail
<1>1. /\ pos \in Nat /\ lastmatch \in Nat /\ lastmatch <= pos /\ SkipUnit \in Nat \ {0}
      /\ limit \in Nat /\ WordSize \in Nat \ {0} /\ pos + WordSize <= limit
  BY AtWord
<1>2. step \in Nat
  <2>1. pos + 1 - lastmatch \in Nat
    BY <1>1
  <2>2. \A x \in Nat : x \div SkipUnit \in Nat
    BY <1>1
  <2> QED BY <2>1, <2>2
<1>3. Skip = IF step <= WordSize THEN Larger(0, Smaller(step, limit - WordSize - (pos + 1)))
             ELSE Smaller(limit, pos + 1 + step) - (pos + 1)
  BY DEF Skip
<1> HIDE DEF step, limit
<1>4. CASE step <= WordSize
  <2>1. Skip = Larger(0, Smaller(step, limit - WordSize - (pos + 1)))
    BY <1>3, <1>4
  <2> QED BY <1>1, <1>2, <2>1 DEF Larger, Smaller, limit
<1>5. CASE ~(step <= WordSize)
  <2>1. Skip = Smaller(limit, pos + 1 + step) - (pos + 1)
    BY <1>3, <1>5
  <2> QED BY <1>1, <1>2, <2>1 DEF Smaller, limit
<1> QED BY <1>4, <1>5

LEMMA NoMatchKeeps ==
    ASSUME CoderInv, NEW o, NoMatch(o)
    PROVE  CoderInv'
<1>1. /\ Scanning /\ unit' = Pending(Skip)
      /\ pos' = pos + 1 + Skip /\ handled' = handled + 1 + Skip
      /\ UNCHANGED <<base, new, phase, head, tail, literal, lastmatch, inst, data, delta,
                     cursor, lits, out>>
  BY DEF NoMatch, decoding
<1>2. /\ phase = "scan" /\ pos \in Nat /\ literal \in Nat /\ unit \in AnyUnit
      /\ lastmatch \in Nat /\ lastmatch <= pos /\ handled = pos
      /\ unit.length \in Nat /\ literal + unit.length = pos /\ unit.flag \in BOOLEAN
  BY <1>1, AtWord
<1>3. Skip \in Nat /\ pos + 1 + Skip <= Len(new) - tail
  BY <1>1, SkipIs
<1>4. unit' = [flag |-> FALSE, offset |-> unit.offset, length |-> unit.length + 1 + Skip]
  BY <1>1, <1>2 DEF Pending, AnyUnit
<1>5. unit' \in AnyUnit /\ ~unit'.flag /\ unit'.length = unit.length + 1 + Skip
  <2>1. unit.offset \in Nat /\ unit.length + 1 + Skip \in Nat
    BY <1>2, <1>3 DEF AnyUnit
  <2> QED BY <1>4, <2>1 DEF AnyUnit
<1>6. pos' \in Nat /\ handled' = pos' /\ literal + unit'.length = pos' /\ lastmatch <= pos'
      /\ pos' <= Len(new) - tail
  BY <1>1, <1>2, <1>3, <1>5
<1>7. Kinds' /\ Fresh' /\ HeadTail'
  BY <1>1, <1>2, <1>5, <1>6 DEF CoderInv, Kinds, Fresh, HeadTail
<1>8. Describes(base, new, inst, data, literal)
  BY <1>2 DEF CoderInv, Scanned
<1>9. Scanned'
  BY <1>1, <1>2, <1>5, <1>6, <1>8 DEF Scanned
<1> QED BY <1>1, <1>2, <1>7, <1>9 DEF CoderInv, Coded, Decoded, DecodeRestores

LEMMA FinishKeeps ==
    ASSUME CoderInv, Finish
    PROVE  CoderInv'
<1> DEFINE rest == Len(new) - tail - literal
           i1 == inst \o (IF Unfinished THEN write_unit(Literal(rest)) ELSE <<>>)
           d1 == IF Unfinished THEN data \o From(new, literal, rest) ELSE data
<1>1. /\ phase = "scan" /\ Emit(i1 \o TailUnit, d1) /\ unit' = [unit EXCEPT !.length = 0]
      /\ UNCHANGED <<base, new, head, tail, pos, handled, literal, lastmatch, cursor, lits, out>>
  BY Zenon DEF Finish, decoding
<1>2. /\ new \in Seq(Bytes) /\ Len(new) \in Nat /\ head \in Nat /\ tail \in Nat
      /\ pos \in Nat /\ literal \in Nat /\ unit \in AnyUnit /\ handled = pos
      /\ inst \in Seq(Symbol) /\ data \in Seq(Bytes)
      /\ literal + (IF unit.flag THEN 0 ELSE unit.length) = pos /\ pos <= Len(new) - tail
      /\ Describes(base, new, inst, data, literal)
  <2>1. Kinds /\ Scanned /\ new \in Seq(Bytes)
    BY DEF CoderInv, Kinds
  <2> QED BY <1>1, <2>1, LenProperties DEF Kinds, Scanned
<1>3. unit.flag \in BOOLEAN /\ unit.length \in Nat
  BY <1>2 DEF AnyUnit
<1>4. rest \in Nat /\ literal + rest = Len(new) - tail /\ literal + rest <= Len(new)
  BY <1>2, <1>3
<1>5. Well(base, new, inst, data, literal)
  BY <1>2 DEF Well
<1>6. Well(base, new, i1, d1, Len(new) - tail)
  <2>1. CASE Unfinished
    <3> HIDE DEF rest
    <3>1. Well(base, new, inst \o write_unit(Literal(rest)), data \o From(new, literal, rest),
               literal + rest)
      BY <1>2, <1>4, <1>5, AddLiteral
    <3> QED BY <2>1, <3>1, <1>4
  <2>2. CASE ~Unfinished
    <3>1. literal = Len(new) - tail
      BY <1>2, <1>3, <2>2 DEF Unfinished, PendingLiteral
    <3>2. i1 = inst /\ d1 = data
      BY <1>2, <2>2, ConcatEmptySeq
    <3> HIDE DEF i1, d1
    <3> QED BY <1>5, <3>1, <3>2
  <2> QED BY <2>1, <2>2
<1> HIDE DEF i1, d1
<1>7. Well(base, new, i1 \o TailUnit, d1, Len(new))
  BY <1>1, <1>6, TailDescribes
<1>8. unit' \in AnyUnit
  BY <1>1, <1>2 DEF AnyUnit
<1> QED BY <1>1, <1>7, <1>8, EmitKeeps

-----------------------------------------------------------------------------
(* gdecode keeps it.                                                        *)

\* The parts of a delta, and its first varint.
LEMMA DeltaParts ==
    ASSUME CoderInv, phase \in {"coded", "decode"}
    PROVE  LET S == Symbol \cup Bytes  wv == write_varint(Len(inst)) IN
           /\ wv \in Seq(S) /\ inst \in Seq(S) /\ data \in Seq(S)
           /\ wv \o inst \in Seq(S) /\ delta \in Seq(S)
           /\ Ahead \in Nat /\ Len(inst) \in Nat /\ Len(data) \in Nat
           /\ Len(wv \o inst) = Ahead + Len(inst)
           /\ delta = (wv \o inst) \o data
           /\ InstLength = [val |-> Len(inst), cursor |-> 1 + Ahead]
<1> DEFINE S == Symbol \cup Bytes  wv == write_varint(Len(inst))  wi == wv \o inst
<1>1. inst \in Seq(Symbol) /\ data \in Seq(Bytes) /\ delta = wi \o data
  BY DEF CoderInv, Kinds, Coded
<1>2. Len(inst) \in Nat /\ Len(data) \in Nat
  BY <1>1
<1>3. Spells(wv, Len(inst))
  BY <1>2, VarintWritten
<1>4. wv \in Seq(Symbol) /\ Len(wv) \in Nat \ {0}
  BY <1>3, SpelledIsSymbols
<1>5. wv \in Seq(S) /\ inst \in Seq(S) /\ data \in Seq(S)
  <2>1. Symbol \subseteq S /\ Bytes \subseteq S
    OBVIOUS
  <2> HIDE DEF S, wv
  <2> QED BY <1>1, <1>4, <2>1, SeqMonotonic
<1> HIDE DEF S, wv
<1>6. wi \in Seq(S) /\ Len(wi) = Len(wv) + Len(inst)
  BY <1>5, ConcatProperties
<1>7. Stands(wv, 1, wv)
  <2>1. \A k \in 1..Len(wv) : 1 + k - 1 = k
    BY <1>4
  <2> QED BY <2>1, <1>4 DEF Stands
<1>8. Stands(wi, 1, wv)
  BY <1>4, <1>5, <1>7, StandsBefore
<1> HIDE DEF wi
<1>9. wi \o data \in Seq(S)
  BY <1>5, <1>6, ConcatProperties
<1>10. Stands(delta, 1, wv)
  BY <1>1, <1>4, <1>5, <1>6, <1>8, StandsBefore
<1>11. Len(delta) \in Nat
  BY <1>1, <1>9
<1>12. read_varint(delta, 1) = [val |-> Len(inst), cursor |-> 1 + Len(wv)]
  BY <1>3, <1>10, <1>11, VarintRead
<1>13. Ahead = Len(wv)
  BY DEF Ahead, wv
<1>14. InstLength = [val |-> Len(inst), cursor |-> 1 + Ahead]
  BY <1>12, <1>13 DEF InstLength
<1> QED BY <1>1, <1>2, <1>4, <1>5, <1>6, <1>9, <1>13, <1>14 DEF S, wv, wi

\* gdecode starts at the first place.
LEMMA FirstPlace ==
    ASSUME CoderInv, phase = "coded", phase' = "decode",
           cursor' = 1 + Ahead, lits' = 1 + Ahead + Len(inst),
           UNCHANGED <<base, new, head, tail, pos, handled, unit, literal, lastmatch,
                       inst, data, delta, out>>
    PROVE  CoderInv'
<1>1. new \in Seq(Bytes) /\ out = <<>> /\ Describes(base, new, inst, data, Len(new))
      /\ Ahead \in Nat /\ Len(inst) \in Nat
  BY DeltaParts DEF CoderInv, Kinds, Fresh, Coded
<1>2. PICK k \in Nat : \E us \in [1..k -> Units], at \in [1..k + 1 -> Place] :
        Script(base, new, inst, data, Len(new), k, us, at)
  BY <1>1 DEF Describes
<1>3. PICK us \in [1..k -> Units], at \in [1..k + 1 -> Place] :
        Script(base, new, inst, data, Len(new), k, us, at)
  BY <1>2
<1>4. 1 \in 1..k + 1 /\ at[1] = [inst |-> 1, data |-> 0, new |-> 0]
  BY <1>3 DEF Script
<1>5. SubSeq(new, 1, 0) = <<>>
  BY SubSeqEmpty
<1>6. Ahead' = Ahead /\ Len(inst)' = Len(inst)
  BY DEF Ahead
<1>7. At(at[1])'
  <2>1. at[1].inst = 1 /\ at[1].data = 0 /\ at[1].new = 0
    BY <1>4
  <2>2. cursor' = Ahead + 1 /\ lits' = Ahead + Len(inst) + 0 + 1
    BY <1>1
  <2> QED BY <1>1, <1>5, <1>6, <2>1, <2>2 DEF At
<1>8. Reached'
  BY <1>3, <1>4, <1>7 DEF Reached
<1>9. Kinds' /\ Fresh' /\ Coded'
  BY DEF CoderInv, Kinds, Fresh, Coded, Phases
<1> QED BY <1>8, <1>9 DEF CoderInv, HeadTail, Scanned, Decoded, DecodeRestores

LEMMA DecodeBeginKeeps ==
    ASSUME CoderInv, DecodeBegin
    PROVE  CoderInv'
<1>1. /\ phase = "coded" /\ phase' = "decode"
      /\ cursor' = InstLength.cursor /\ lits' = InstLength.cursor + InstLength.val
      /\ UNCHANGED <<base, new, head, tail, pos, handled, unit, literal, lastmatch,
                     inst, data, delta, out>>
  BY DEF DecodeBegin, scanning
<1>2. InstLength = [val |-> Len(inst), cursor |-> 1 + Ahead]
  BY <1>1, DeltaParts
<1> QED BY <1>1, <1>2, FirstPlace

\* The place gdecode is at, as one of the places of a description.
LEMMA PlaceOf ==
    ASSUME CoderInv, phase = "decode"
    PROVE  \E k \in Nat : \E us \in [1..k -> Units], at \in [1..k + 1 -> Place] :
             /\ Script(base, new, inst, data, Len(new), k, us, at)
             /\ \E j \in 1..k + 1 : At(at[j]) /\ at[j].new <= Len(new)
<1>1. Reached
  BY DEF CoderInv, Decoded
<1>2. PICK k \in Nat : \E us \in [1..k -> Units], at \in [1..k + 1 -> Place] :
      /\ Script(base, new, inst, data, Len(new), k, us, at)
      /\ \E j \in 1..k + 1 : At(at[j])
  BY <1>1 DEF Reached
<1>3. PICK us \in [1..k -> Units], at \in [1..k + 1 -> Place] :
      /\ Script(base, new, inst, data, Len(new), k, us, at)
      /\ \E j \in 1..k + 1 : At(at[j])
  BY <1>2
<1>4. PICK j \in 1..k + 1 : At(at[j])
  BY <1>3
<1>5. Len(new) \in Nat
  BY DEF CoderInv, Kinds
<1>6. at[j].new <= Len(new)
  <2>1. CASE j = 1
    BY <1>3, <1>5, <2>1 DEF Script
  <2>2. CASE j # 1
    <3> DEFINE i == j - 1
    <3>1. i \in 1..k /\ i + 1 = j
      BY <2>2
    <3> HIDE DEF i
    <3>2. Turn(base, new, inst, data, us[i], at[i], at[i + 1])
      BY <1>3, <3>1 DEF Script
    <3> QED BY <3>1, <3>2 DEF Turn
  <2> QED BY <2>1, <2>2
<1> QED BY <1>3, <1>4, <1>6

LEMMA LaterPart ==
    ASSUME NEW S, NEW a \in Seq(S), NEW b \in Seq(S)
    PROVE  \A m \in 1..Len(b) : (a \o b)[Len(a) + m] = b[m]
OBVIOUS

\* A unit leads from one place to the next.
LEMMA NextPlace ==
    ASSUME CoderInv, DecodeUnit, NEW u \in Units, NEW s \in Place, NEW t \in Place,
           At(s), s.new <= Len(new), Turn(base, new, inst, data, u, s, t)
    PROVE  At(t)'
<1> DEFINE S == Symbol \cup Bytes  wv == write_varint(Len(inst))  wi == wv \o inst
<1>1. /\ phase = "decode"
      /\ out' = out \o IF read_unit(delta, cursor).unit.flag
                       THEN From(base, read_unit(delta, cursor).unit.offset,
                                 read_unit(delta, cursor).unit.length)
                       ELSE SubSeq(delta, lits, lits + read_unit(delta, cursor).unit.length - 1)
      /\ lits' = IF read_unit(delta, cursor).unit.flag THEN lits
                 ELSE lits + read_unit(delta, cursor).unit.length
      /\ cursor' = read_unit(delta, cursor).cursor
      /\ UNCHANGED <<base, new, inst>>
  BY Zenon DEF DecodeUnit
<1>2. /\ wv \in Seq(S) /\ inst \in Seq(S) /\ data \in Seq(S) /\ wi \in Seq(S) /\ delta \in Seq(S)
      /\ Ahead \in Nat /\ Len(inst) \in Nat /\ Len(data) \in Nat
      /\ Len(wi) = Ahead + Len(inst) /\ delta = wi \o data /\ Len(wv) = Ahead
  BY <1>1, DeltaParts DEF Ahead
<1> HIDE DEF S, wv, wi
<1>20. /\ Ahead \in Nat /\ Len(inst) \in Nat /\ Len(data) \in Nat
       /\ Len(wi) = Ahead + Len(inst) /\ Len(wv) = Ahead
  BY <1>2
<1>3. /\ base \in Seq(Bytes) /\ new \in Seq(Bytes) /\ Len(base) \in Nat /\ Len(new) \in Nat
  BY DEF CoderInv, Kinds
<1>4. cursor = Ahead + s.inst /\ lits = Ahead + Len(inst) + s.data + 1
  BY DEF At
<1>5. /\ s.inst \in Nat \ {0} /\ s.data \in Nat /\ s.new \in Nat
      /\ t.inst \in Nat \ {0} /\ t.data \in Nat /\ t.new \in Nat
      /\ u.length \in Nat /\ u.flag \in BOOLEAN /\ u.offset \in Nat
  BY DEF Place, Units
<1>21. s.data \in Nat /\ u.length \in Nat /\ t.data \in Nat
  BY <1>5
<1>22. lits = Ahead + Len(inst) + s.data + 1 /\ lits \in Nat
  <2>1. lits = Ahead + Len(inst) + s.data + 1
    BY <1>4
  <2> QED BY <2>1, <1>20, <1>21
<1>6. /\ Stands(inst, s.inst, write_unit(u)) /\ t.inst = s.inst + Len(write_unit(u))
      /\ t.new = s.new + u.length /\ t.new <= Len(new)
      /\ Len(write_unit(u)) \in Nat
  BY UnitWritten DEF Turn
<1>7. Stands(delta, cursor, write_unit(u)) /\ cursor \in Nat
  <2>1. Stands(wi, Len(wv) + s.inst, write_unit(u))
    BY <1>2, <1>5, <1>6, StandsBehind DEF wi
  <2>2. Len(wv) + s.inst \in Nat \ {0} /\ Len(wv) + s.inst = cursor
    <3>1. cursor = Ahead + s.inst
      BY <1>4
    <3> QED BY <3>1, <1>20, <1>5
  <2> QED BY <1>2, <1>6, <2>1, <2>2, StandsBefore
<1>8. read_unit(delta, cursor) = [unit |-> u, cursor |-> cursor + Len(write_unit(u))]
  BY <1>2, <1>7, UnitRead
<1>9. /\ out' = out \o IF u.flag THEN From(base, u.offset, u.length)
                       ELSE SubSeq(delta, lits, lits + u.length - 1)
      /\ lits' = IF u.flag THEN lits ELSE lits + u.length
      /\ cursor' = cursor + Len(write_unit(u))
  <2>1. /\ read_unit(delta, cursor).unit = u
        /\ read_unit(delta, cursor).cursor = cursor + Len(write_unit(u))
    BY <1>8
  <2> QED BY <1>1, <2>1, Zenon
<1> DEFINE z == IF u.flag THEN From(base, u.offset, u.length)
                ELSE SubSeq(delta, lits, lits + u.length - 1)
<1>10. /\ Len(z) = u.length
       /\ \A i \in 1..u.length : z[i] = new[s.new + i]
       /\ z \in Seq(S)
  <2>0. Bytes \subseteq S
    BY DEF S
  <2>1. CASE u.flag
    <3>1. u.offset + u.length <= Len(base) /\ Same(base, u.offset, new, s.new, u.length)
      BY <2>1 DEF Turn
    <3>2. z \in Seq(Bytes) /\ Len(z) = u.length /\ Same(z, 0, base, u.offset, u.length)
      BY <1>3, <1>5, <2>1, <3>1, FromIs
    <3> HIDE DEF z
    <3>3. z \in Seq(S)
      BY <2>0, <3>2, SeqMonotonic
    <3>4. \A i \in 1..u.length : z[0 + i] = new[s.new + i]
      BY <3>1, <3>2 DEF Same
    <3>5. \A i \in 1..u.length : 0 + i = i
      BY <1>5
    <3> QED BY <3>2, <3>3, <3>4, <3>5
  <2>2. CASE ~u.flag
    <3>1. /\ t.data = s.data + u.length /\ t.data <= Len(data)
          /\ Same(data, s.data, new, s.new, u.length)
      BY <2>2 DEF Turn
    <3> DEFINE lo == lits  hi == lits + u.length - 1
    <3>2. lo \in Int /\ hi \in Int /\ hi - lo + 1 = u.length /\ (lo <= hi \/ u.length = 0)
          /\ lo = Len(wi) + s.data + 1 /\ hi = Len(wi) + s.data + u.length
          /\ Len(wi) \in Nat
      <4>1. lits \in Nat
        BY <1>22
      <4>2. lo = Len(wi) + s.data + 1 /\ Len(wi) \in Nat
        BY <1>20, <1>22
      <4>3. lo \in Int /\ hi \in Int /\ hi - lo + 1 = u.length
        BY <4>1, <1>21
      <4>4. lo <= hi \/ u.length = 0
        BY <4>1, <1>21
      <4>5. hi = Len(wi) + s.data + u.length
        <5>1. lits = Len(wi) + s.data + 1
          BY <4>2
        <5> QED BY <5>1, <4>2, <1>21
      <4> QED BY <4>2, <4>3, <4>4, <4>5
    <3>9. s.data + u.length <= Len(data)
      BY <3>1
    <3>3. z = SubSeq(delta, lo, hi)
      BY <2>2
    <3> HIDE DEF z, lo, hi
    <3>4. /\ Len(delta) = Len(wi) + Len(data)
          /\ \A m \in 1..Len(data) : delta[Len(wi) + m] = data[m]
      <4>1. Len(wi \o data) = Len(wi) + Len(data)
        BY <1>2
      <4>2. \A m \in 1..Len(data) : (wi \o data)[Len(wi) + m] = data[m]
        BY <1>2, LaterPart
      <4> QED BY <1>2, <4>1, <4>2
    <3>5. \A i \in lo..hi : delta[i] \in S
      <4>1. \A i \in lo..hi : i \in 1..Len(delta)
        <5>0. Len(delta) = Len(wi) + Len(data) /\ Len(wi) \in Nat /\ Len(data) \in Nat
          BY <1>20, <3>2, <3>4
        <5>1. lo = Len(wi) + s.data + 1 /\ hi = Len(wi) + s.data + u.length
          BY <3>2
        <5>2. \A p, q, x, r \in Nat : p + x <= q => r + p + x <= r + q /\ r + p + 1 >= 1
          OBVIOUS
        <5>3. hi <= Len(delta) /\ lo >= 1
          BY <5>0, <5>1, <5>2, <1>21, <3>9
        <5> QED BY <5>0, <5>3, <3>2
      <4> QED BY <1>2, <4>1, ElementOfSeq
    <3>6. /\ SubSeq(delta, lo, hi) \in Seq(S)
          /\ Len(SubSeq(delta, lo, hi)) = IF lo <= hi THEN hi - lo + 1 ELSE 0
          /\ \A i \in 1..hi - lo + 1 : SubSeq(delta, lo, hi)[i] = delta[lo + i - 1]
      BY <3>2, <3>5, SubSeqProperties
    <3>7. Len(z) = u.length
      BY <3>2, <3>3, <3>6, <1>5
    <3>8. ASSUME NEW i \in 1..u.length PROVE z[i] = new[s.new + i]
      <4>1. z[i] = delta[lo + i - 1]
        BY <3>2, <3>3, <3>6
      <4>2. s.data + i \in 1..Len(data) /\ lo + i - 1 = Len(wi) + (s.data + i)
        <5>1. \A p, q, r, x \in Nat : \A y \in 1..x : p + x <= q =>
                p + y \in 1..q /\ r + p + 1 + y - 1 = r + (p + y)
          OBVIOUS
        <5>2. s.data + i \in 1..Len(data)
          BY <1>20, <1>5, <3>9, <5>1
        <5>3. lo + i - 1 = Len(wi) + (s.data + i)
          <6>1. s.data \in Nat /\ i \in Nat /\ Len(wi) \in Nat
            BY <1>20, <1>5, <3>2
          <6>2. \A r, p, y \in Nat : r + p + 1 + y - 1 = r + (p + y)
            OBVIOUS
          <6>3. lo = Len(wi) + s.data + 1
            BY <3>2
          <6> QED BY <6>1, <6>2, <6>3
        <5> QED BY <5>2, <5>3
      <4>3. z[i] = data[s.data + i]
        BY <3>4, <4>1, <4>2
      <4> QED BY <3>1, <4>3 DEF Same
    <3> QED BY <3>3, <3>6, <3>7, <3>8
  <2> QED BY <2>1, <2>2, <1>5
<1> HIDE DEF z
<1>11. out' = SubSeq(new, 1, t.new)
  <2> DEFINE x == SubSeq(new, 1, s.new)  y == SubSeq(new, 1, t.new)
  <2>0. ASSUME NEW n \in Nat, n <= Len(new)
        PROVE  /\ SubSeq(new, 1, n) \in Seq(S) /\ Len(SubSeq(new, 1, n)) = n
               /\ \A i \in 1..n : SubSeq(new, 1, n)[i] = new[i]
    <3>1. \A i \in 1..n : new[i] \in S
      BY <1>3, <2>0, ElementOfSeq DEF S
    <3>2. 1 \in Int /\ n \in Int /\ n - 1 + 1 = n
      OBVIOUS
    <3>3. /\ SubSeq(new, 1, n) \in Seq(S)
          /\ Len(SubSeq(new, 1, n)) = IF 1 <= n THEN n - 1 + 1 ELSE 0
          /\ \A i \in 1..n - 1 + 1 : SubSeq(new, 1, n)[i] = new[1 + i - 1]
      BY <3>1, <3>2, SubSeqProperties
    <3>4. \A i \in 1..n : 1 + i - 1 = i
      OBVIOUS
    <3> QED BY <3>2, <3>3, <3>4
  <2>1. x \in Seq(S) /\ Len(x) = s.new /\ \A i \in 1..s.new : x[i] = new[i]
    BY <1>5, <2>0
  <2>2. y \in Seq(S) /\ Len(y) = t.new /\ \A i \in 1..t.new : y[i] = new[i]
    BY <1>5, <1>6, <2>0
  <2> HIDE DEF x, y
  <2>3. /\ x \o z \in Seq(S) /\ Len(x \o z) = Len(x) + Len(z)
        /\ \A i \in 1..Len(x) + Len(z) : (x \o z)[i] = IF i <= Len(x) THEN x[i] ELSE z[i - Len(x)]
    BY <1>10, <2>1, ConcatProperties
  <2>4. Len(x \o z) = Len(y)
    BY <1>6, <1>10, <2>1, <2>2, <2>3
  <2>5. ASSUME NEW i \in 1..Len(x \o z) PROVE (x \o z)[i] = y[i]
    <3>1. i \in 1..s.new + u.length /\ i \in 1..t.new
      BY <1>6, <1>10, <2>1, <2>3
    <3>2. (x \o z)[i] = IF i <= s.new THEN x[i] ELSE z[i - s.new]
      BY <1>10, <2>1, <2>3, <3>1
    <3>3. CASE i <= s.new
      BY <1>5, <2>1, <2>2, <3>1, <3>2, <3>3
    <3>4. CASE ~(i <= s.new)
      <4>1. i - s.new \in 1..u.length /\ s.new + (i - s.new) = i
        BY <1>5, <3>1, <3>4
      <4>2. z[i - s.new] = new[i]
        BY <1>10, <4>1
      <4> QED BY <2>2, <3>1, <3>2, <3>4, <4>2
    <3> QED BY <3>3, <3>4
  <2>6. x \o z = y
    BY <2>2, <2>3, <2>4, <2>5, SeqEqual
  <2>7. out' = x \o z
    BY <1>9 DEF x, z, At
  <2> QED BY <2>6, <2>7 DEF y
<1>12. Ahead' = Ahead /\ Len(inst)' = Len(inst) /\ new' = new
  BY <1>1 DEF Ahead
<1>13. cursor' = Ahead + t.inst
  BY <1>2, <1>4, <1>5, <1>6, <1>9
<1>14. lits' = Ahead + Len(inst) + t.data + 1
  <2>1. CASE u.flag
    BY <1>4, <1>9, <2>1 DEF Turn
  <2>2. CASE ~u.flag
    <3>1. t.data = s.data + u.length /\ lits' = lits + u.length
      BY <1>9, <2>2 DEF Turn
    <3> QED BY <3>1, <1>20, <1>22, <1>21
  <2> QED BY <2>1, <2>2, <1>5
<1> QED BY <1>11, <1>12, <1>13, <1>14 DEF At

LEMMA DecodeUnitKeeps ==
    ASSUME CoderInv, DecodeUnit
    PROVE  CoderInv'
<1>1. /\ phase = "decode" /\ cursor < InstLength.cursor + InstLength.val
      /\ UNCHANGED <<base, new, phase, head, tail, pos, handled, unit, literal, lastmatch,
                     inst, data, delta>>
  BY DEF DecodeUnit, scanning
<1>2. /\ InstLength = [val |-> Len(inst), cursor |-> 1 + Ahead]
      /\ Ahead \in Nat /\ Len(inst) \in Nat
  BY <1>1, DeltaParts
<1>3. PICK k \in Nat : \E us \in [1..k -> Units], at \in [1..k + 1 -> Place] :
             /\ Script(base, new, inst, data, Len(new), k, us, at)
             /\ \E j \in 1..k + 1 : At(at[j]) /\ at[j].new <= Len(new)
  BY <1>1, PlaceOf
<1>4. PICK us \in [1..k -> Units], at \in [1..k + 1 -> Place] :
             /\ Script(base, new, inst, data, Len(new), k, us, at)
             /\ \E j \in 1..k + 1 : At(at[j]) /\ at[j].new <= Len(new)
  BY <1>3
<1>5. PICK j \in 1..k + 1 : At(at[j]) /\ at[j].new <= Len(new)
  BY <1>4
<1>6. j \in 1..k /\ j + 1 \in 1..k + 1
  <2>1. cursor = Ahead + at[j].inst /\ at[j].inst \in Nat
    BY <1>5 DEF At, Place
  <2>2. j = k + 1 => at[j].inst = Len(inst) + 1
    BY <1>4 DEF Script
  <2>3. cursor < 1 + Ahead + Len(inst)
    BY <1>1, <1>2
  <2>4. j # k + 1
    BY <1>2, <2>1, <2>2, <2>3
  <2> QED BY <2>4
<1>7. Turn(base, new, inst, data, us[j], at[j], at[j + 1])
  BY <1>4, <1>6 DEF Script
<1>8. us[j] \in Units /\ at[j] \in Place /\ at[j + 1] \in Place
  BY <1>6
<1>9. At(at[j + 1])'
  BY <1>5, <1>7, <1>8, NextPlace
<1>10. Reached'
  BY <1>1, <1>4, <1>6, <1>9 DEF Reached
<1>11. Kinds' /\ Fresh' /\ Coded'
  BY <1>1 DEF CoderInv, Kinds, Fresh, Coded
<1> QED BY <1>1, <1>10, <1>11 DEF CoderInv, HeadTail, Scanned, Decoded, DecodeRestores

LEMMA DecodeEndKeeps ==
    ASSUME CoderInv, DecodeEnd
    PROVE  CoderInv'
<1>1. /\ phase = "decode" /\ phase' = "done" /\ cursor >= InstLength.cursor + InstLength.val
      /\ UNCHANGED <<base, new, head, tail, pos, handled, unit, literal, lastmatch,
                     inst, data, delta, out>>
  BY DEF DecodeEnd, scanning, decoding
<1>2. /\ InstLength = [val |-> Len(inst), cursor |-> 1 + Ahead]
      /\ Ahead \in Nat /\ Len(inst) \in Nat
  BY <1>1, DeltaParts
<1>3. PICK k \in Nat : \E us \in [1..k -> Units], at \in [1..k + 1 -> Place] :
             /\ Script(base, new, inst, data, Len(new), k, us, at)
             /\ \E j \in 1..k + 1 : At(at[j]) /\ at[j].new <= Len(new)
  BY <1>1, PlaceOf
<1>4. PICK us \in [1..k -> Units], at \in [1..k + 1 -> Place] :
             /\ Script(base, new, inst, data, Len(new), k, us, at)
             /\ \E j \in 1..k + 1 : At(at[j]) /\ at[j].new <= Len(new)
  BY <1>3
<1>5. PICK j \in 1..k + 1 : At(at[j]) /\ at[j].new <= Len(new)
  BY <1>4
<1>6. j = k + 1
  <2> SUFFICES ASSUME j \in 1..k PROVE FALSE
    OBVIOUS
  <2>1. Turn(base, new, inst, data, us[j], at[j], at[j + 1])
    BY <1>4 DEF Script
  <2>2. us[j] \in Units /\ at[j] \in Place
    OBVIOUS
  <2>3. Len(write_unit(us[j])) \in Nat \ {0}
    BY <2>2, UnitWritten
  <2>4. at[j].inst + Len(write_unit(us[j])) <= Len(inst) + 1
    BY <2>1 DEF Turn, Stands
  <2>5. cursor = Ahead + at[j].inst /\ at[j].inst \in Nat
    BY <1>5, <2>2 DEF At, Place
  <2>6. at[j].inst < Len(inst) + 1
    BY <1>2, <2>3, <2>4, <2>5
  <2>7. cursor >= 1 + Ahead + Len(inst)
    BY <1>1, <1>2
  <2> QED BY <1>2, <2>5, <2>6, <2>7
<1>7. new \in Seq(Bytes)
  BY DEF CoderInv, Kinds
<1>8. out = SubSeq(new, 1, Len(new))
  <2>1. at[k + 1] = [inst |-> Len(inst) + 1, data |-> Len(data), new |-> Len(new)]
    BY <1>4 DEF Script
  <2> QED BY <1>5, <1>6, <2>1 DEF At
<1>9. out = new
  BY <1>7, <1>8, SubSeqFull
<1>10. Kinds' /\ Fresh' /\ DecodeRestores'
  BY <1>1, <1>9 DEF CoderInv, Kinds, Fresh, DecodeRestores, Phases
<1> QED BY <1>1, <1>10 DEF CoderInv, HeadTail, Scanned, Coded, Decoded

-----------------------------------------------------------------------------
(* Theorems about the coder.                                                *)

LEMMA NextKeeps ==
    ASSUME CoderInv, [Next]_vars
    PROVE  CoderInv'
<1>1. CASE Detect
  BY <1>1, DetectKeeps
<1>2. CASE Covered
  BY <1>2, CoveredKeeps
<1>3. CASE Begin
  BY <1>3, BeginKeeps
<1>4. CASE \E o \in baseoffsets : Match(o) \/ ReverseMatch(o) \/ NoMatch(o)
  BY <1>4, MatchKeeps, ReverseMatchKeeps, NoMatchKeeps
<1>5. CASE Finish
  BY <1>5, FinishKeeps
<1>6. CASE DecodeBegin
  BY <1>6, DecodeBeginKeeps
<1>7. CASE DecodeUnit
  BY <1>7, DecodeUnitKeeps
<1>8. CASE DecodeEnd
  BY <1>8, DecodeEndKeeps
<1>9. CASE UNCHANGED vars
  <2>1. /\ UNCHANGED <<base, new, phase, head, tail, pos, handled, unit, literal, lastmatch,
                       inst, data, delta>>
        /\ UNCHANGED <<cursor, lits, out>>
    BY <1>9 DEF vars
  <2>2. Reached => Reached'
    BY <2>1 DEF Reached, At, Ahead
  <2> QED BY <2>1, <2>2 DEF CoderInv, Kinds, Fresh, HeadTail, Scanned, Coded, Decoded, DecodeRestores
<1> QED BY <1>1, <1>2, <1>3, <1>4, <1>5, <1>6, <1>7, <1>8, <1>9 DEF Next

\* What gencode has written describes the buffer, and gdecode is at a place of
\* the description.
THEOREM CoderHolds == Spec => []CoderInv
<1>1. CoderInv /\ [Next]_vars => CoderInv'
  BY NextKeeps
<1> QED BY <1>1, InitIsFresh, PTL DEF Spec

LEMMA Accounted == CoderInv => LiteralsAccounted
BY DEF CoderInv, Scanned, LiteralsAccounted

\* gdecode gives back the buffer, for any base and any answers of the table.
THEOREM CoderRestores == Spec => []DecodeRestores
<1>1. CoderInv => DecodeRestores
  BY DEF CoderInv
<1> QED BY <1>1, CoderHolds, PTL

\* The bytes gencode has handled are those before inputPos, and those since the
\* last unit are the pending literal.
THEOREM CoderAccounts == Spec => []LiteralsAccounted
BY Accounted, CoderHolds, PTL

-----------------------------------------------------------------------------
(* Theorems about its callers.                                              *)

\* The program has no buffers before it calls gencode, and what is in the file
\* is the delta.
Program ==
    /\ main \in {"start", "random", "file"} => phase = "detect"
    /\ main = "testing" => Len(new) = Chunk
    /\ main = "written" => phase \in {"coded", "decode", "done"} /\ output.bytes = delta
    /\ main # "mismatch"

MainInv == CoderInv /\ Program

\* gencode may be called with any buffers of bytes.
LEMMA EncodeKeeps ==
    ASSUME CoderInv, phase = "detect", NEW n \in Seq(Bytes), NEW b \in Seq(Bytes),
           Encode(n, b), phase' = phase
    PROVE  CoderInv'
<1>1. /\ base' = b /\ new' = n /\ phase' = "detect"
      /\ UNCHANGED <<head, tail, pos, handled, unit, literal, lastmatch, inst, data, delta,
                     cursor, lits, out>>
  BY DEF Encode, coder, scanning, decoding
<1>2. Kinds' /\ Fresh'
  BY <1>1 DEF CoderInv, Kinds, Fresh
<1> QED BY <1>1, <1>2 DEF CoderInv, HeadTail, Scanned, Coded, Decoded, DecodeRestores

LEMMA BuffersAre ==
    ASSUME NEW sizes, sizes \subseteq Nat, NEW b \in Buffers(sizes)
    PROVE  b \in Seq(Bytes) /\ Len(b) \in sizes /\ b \in [1..Len(b) -> Bytes]
<1>1. PICK n \in sizes : b \in [1..n -> Bytes]
  BY DEF Buffers
<1>2. n \in Nat
  OBVIOUS
<1>3. b \in Seq(Bytes) /\ Len(b) = n
  BY <1>1, <1>2
<1> QED BY <1>1, <1>3

\* The buffers of the test program are bytes as well.
LEMMA MarkedIs ==
    ASSUME NEW b \in Seq(Bytes), NEW mark \in Bytes
    PROVE  Marked(b, mark) \in Seq(Bytes) /\ Len(Marked(b, mark)) = Len(b)
<1> DEFINE n == Len(b)  m == Marked(b, mark)
<1>1. n \in Nat /\ DOMAIN b = 1..n /\ \A i \in 1..n : b[i] \in Bytes
  OBVIOUS
<1>2. m = [i \in 1..n |-> IF (i - 1) % MarkEvery = 0 THEN mark ELSE b[i]]
  BY <1>1, Zenon DEF Marked
<1> HIDE DEF n, m
<1>3. m \in [1..n -> Bytes]
  BY <1>1, <1>2
<1>4. m \in Seq(Bytes) /\ Len(m) = n
  BY <1>1, <1>3
<1> QED BY <1>4 DEF n, m

LEMMA ShiftedIs ==
    ASSUME NEW b \in Seq(Bytes)
    PROVE  Shifted(b) \in Seq(Bytes)
<1> DEFINE c == Cardinality(Bytes)  n == Len(b)  s == Shifted(b)
<1>1. c \in Nat
  BY MainAssumption, FS_CardinalityType
<1>2. Bytes = 0..c - 1 /\ NewMark \in Bytes
  BY MainAssumption
<1>3. n \in Nat /\ DOMAIN b = 1..n /\ \A i \in 1..n : b[i] \in Bytes
  OBVIOUS
<1>4. s = [i \in 1..n |-> (b[i] + 1) % c]
  BY <1>3, Zenon DEF Shifted
<1> HIDE DEF c, n, s
<1>5. c \in Nat \ {0}
  BY <1>1, <1>2
<1>6. \A x \in Bytes : (x + 1) % c \in Bytes
  BY <1>2, <1>5
<1>7. s \in [1..n -> Bytes]
  BY <1>3, <1>4, <1>6
<1>8. s \in Seq(Bytes)
  BY <1>3, <1>7
<1> QED BY <1>8 DEF s

LEMMA MainStarts == MainInit => MainInv
<1> SUFFICES ASSUME MainInit PROVE MainInv
  OBVIOUS
<1>1. CoderInv
  BY InitIsFresh DEF MainInit
<1>2. Program
  BY DEF MainInit, Init, Program
<1> QED BY <1>1, <1>2 DEF MainInv

LEMMA MainKeeps ==
    ASSUME MainInv, [MainNext]_<<vars, mainVars>>
    PROVE  MainInv'
<1>0. CoderInv /\ Program /\ {Chunk} \subseteq Nat /\ NewMark \in Bytes /\ BaseMark \in Bytes
      /\ NewSizes \subseteq Nat /\ BaseSizes \subseteq Nat
  BY MainAssumption, GDeltaAssumption DEF MainInv
<1>1. CASE LibraryCall
  <2>1. PICK n \in Buffers(NewSizes), b \in Buffers(BaseSizes) : Encode(n, b)
    BY <1>1 DEF LibraryCall
  <2>2. main = "start" /\ main' = "library" /\ phase' = phase
    BY <1>1 DEF LibraryCall
  <2>3. n \in Seq(Bytes) /\ b \in Seq(Bytes) /\ phase = "detect"
    BY <1>0, <2>2, BuffersAre DEF Program
  <2>4. CoderInv'
    BY <1>0, <2>1, <2>2, <2>3, EncodeKeeps
  <2> QED BY <2>2, <2>4 DEF MainInv, Program
<1>2. CASE parseArgs
  <2>1. /\ main = "start" /\ main' \in {"random", "file", "failed"} /\ UNCHANGED <<vars, output>>
    BY <1>2 DEF parseArgs, Random, File
  <2>2. CoderInv'
    BY <1>0, <2>1, NextKeeps
  <2>3. phase' = "detect"
    BY <1>0, <2>1 DEF Program, vars
  <2> QED BY <2>1, <2>2, <2>3 DEF MainInv, Program
<1>3. CASE testRandomData
  <2>1. PICK r \in Buffers({Chunk}) : Encode(Marked(r, NewMark), Marked(r, BaseMark))
    BY <1>3 DEF testRandomData
  <2>2. main = "random" /\ main' = "testing" /\ phase' = phase
    BY <1>3 DEF testRandomData
  <2>3. r \in Seq(Bytes) /\ Len(r) = Chunk /\ phase = "detect"
    BY <1>0, <2>2, BuffersAre DEF Program
  <2>4. /\ Marked(r, NewMark) \in Seq(Bytes) /\ Marked(r, BaseMark) \in Seq(Bytes)
        /\ Len(Marked(r, NewMark)) = Chunk
    BY <1>0, <2>3, MarkedIs
  <2>5. CoderInv'
    BY <1>0, <2>1, <2>2, <2>3, <2>4, EncodeKeeps
  <2>6. Len(new)' = Chunk
    BY <2>1, <2>4 DEF Encode
  <2> QED BY <2>2, <2>5, <2>6 DEF MainInv, Program
<1>4. CASE testFileData
  <2>1. main = "file" /\ phase = "detect"
    BY <1>0, <1>4 DEF testFileData, Program
  <2>2. CASE main' = "ended" /\ UNCHANGED vars
    <3>1. CoderInv'
      BY <1>0, <2>2, NextKeeps
    <3> QED BY <2>2, <3>1 DEF MainInv, Program
  <2>3. CASE \E f \in Buffers(NewSizes) :
               main' = "coding" /\ Encode(f, Shifted(f)) /\ UNCHANGED phase
    <3>1. PICK f \in Buffers(NewSizes) :
            main' = "coding" /\ Encode(f, Shifted(f)) /\ UNCHANGED phase
      BY <2>3
    <3>2. f \in Seq(Bytes) /\ Shifted(f) \in Seq(Bytes)
      BY <1>0, BuffersAre, ShiftedIs
    <3>3. CoderInv'
      BY <1>0, <2>1, <3>1, <3>2, EncodeKeeps
    <3> QED BY <3>1, <3>3 DEF MainInv, Program
  <2> QED BY <1>4, <2>2, <2>3, Zenon DEF testFileData
<1>5. CASE WriteDelta
  <2>1. /\ phase = "coded" /\ UNCHANGED vars
        /\ \/ output' = [exists |-> TRUE, bytes |-> delta] /\ main' = "written"
           \/ UNCHANGED output /\ main' = "ended"
    BY <1>5 DEF WriteDelta
  <2>2. CoderInv'
    BY <1>0, <2>1, NextKeeps
  <2>3. phase' = "coded" /\ delta' = delta
    BY <2>1 DEF vars
  <2>4. Program'
    BY <2>1, <2>3 DEF Program
  <2> QED BY <2>2, <2>4 DEF MainInv
<1>6. CASE Verify
  <2>1. /\ main = "testing" /\ phase = "done" /\ UNCHANGED vars
        /\ main' = IF Len(out) # Chunk \/ out # new THEN "mismatch" ELSE "ended"
    BY <1>6 DEF Verify
  <2>2. out = new /\ Len(new) = Chunk
    BY <1>0, <2>1 DEF CoderInv, DecodeRestores, Program
  <2>3. main' = "ended"
    BY <2>1, <2>2
  <2>4. CoderInv'
    BY <1>0, <2>1, NextKeeps
  <2> QED BY <2>3, <2>4 DEF MainInv, Program
<1>7. CASE DecodeFile
  <2>1. /\ main = "written" /\ phase = "coded" /\ phase' = "decode"
        /\ cursor' = read_varint(output.bytes, 1).cursor
        /\ lits' = read_varint(output.bytes, 1).cursor + read_varint(output.bytes, 1).val
        /\ UNCHANGED <<base, new, head, tail, pos, handled, unit, literal, lastmatch,
                       inst, data, delta, out>>
        /\ UNCHANGED <<main, args, output>>
    BY <1>7 DEF DecodeFile, scanning, mainVars
  <2>2. output.bytes = delta
    BY <1>0, <2>1 DEF Program
  <2>3. InstLength = [val |-> Len(inst), cursor |-> 1 + Ahead]
    BY <1>0, <2>1, DeltaParts
  <2>4. cursor' = 1 + Ahead /\ lits' = 1 + Ahead + Len(inst)
    BY <2>1, <2>2, <2>3 DEF InstLength
  <2>5. CoderInv'
    BY <1>0, <2>1, <2>4, FirstPlace
  <2>6. Program'
    BY <1>0, <2>1 DEF Program
  <2> QED BY <2>5, <2>6 DEF MainInv
<1>8. CASE Coding
  <2>1. /\ main \in {"library", "testing", "coding", "written"} /\ Next
        /\ phase = "coded" => main \in {"library", "testing"}
        /\ UNCHANGED <<main, args, output>>
    BY <1>8 DEF Coding, Running, mainVars
  <2>2. CoderInv'
    BY <1>0, <2>1, NextKeeps
  <2>3. new' = new
    BY <2>1 DEF Next, Detect, Covered, Begin, Match, ReverseMatch, NoMatch, Finish,
                DecodeBegin, DecodeUnit, DecodeEnd
  <2>4. main = "written" => delta' = delta /\ phase' \in {"decode", "done"}
    <3> SUFFICES ASSUME main = "written"
                 PROVE  delta' = delta /\ phase' \in {"decode", "done"}
      OBVIOUS
    <3>1. phase \in {"decode", "done"}
      BY <1>0, <2>1 DEF Program
    <3>2. DecodeUnit \/ DecodeEnd
      BY <2>1, <3>1 DEF Next, Detect, Covered, Begin, Match, ReverseMatch, NoMatch, Scanning,
                        Finish, DecodeBegin
    <3>3. DecodeUnit => delta' = delta /\ phase' = phase
      BY DEF DecodeUnit
    <3>4. DecodeEnd => delta' = delta /\ phase' = "done"
      BY DEF DecodeEnd
    <3> QED BY <3>1, <3>2, <3>3, <3>4
  <2>5. Program'
    BY <1>0, <2>1, <2>3, <2>4 DEF Program
  <2> QED BY <2>2, <2>5 DEF MainInv
<1>9. CASE UNCHANGED <<vars, mainVars>>
  <2>1. UNCHANGED vars /\ UNCHANGED <<main, output>> /\ UNCHANGED <<phase, new, delta>>
    BY <1>9 DEF mainVars, vars
  <2>2. CoderInv'
    BY <1>0, <2>1, NextKeeps
  <2> QED BY <1>0, <2>1, <2>2 DEF MainInv, Program
<1> QED BY <1>1, <1>2, <1>3, <1>4, <1>5, <1>6, <1>7, <1>8, <1>9 DEF MainNext

\* The callers give gencode buffers of bytes, and gdecode its delta.
THEOREM MainHolds == MainSpec => []MainInv
<1>1. MainInv /\ [MainNext]_<<vars, mainVars>> => MainInv'
  BY MainKeeps
<1> QED BY <1>1, MainStarts, PTL DEF MainSpec

\* Whoever calls it, with the delta in memory or in a file, gets the buffer back.
THEOREM MainRestores == MainSpec => []DecodeRestores
<1>1. MainInv => DecodeRestores
  BY DEF MainInv, CoderInv
<1> QED BY <1>1, MainHolds, PTL

\* For all callers: at every step of gencode's scan, the bytes it has handled
\* are those before inputPos, and the ones since the last unit its literal.
THEOREM MainAccounts == MainSpec => []LiteralsAccounted
<1>1. MainInv => LiteralsAccounted
  BY Accounted DEF MainInv
<1> QED BY <1>1, MainHolds, PTL

\* The test program never reports that the buffer was not restored.
THEOREM TestNeverMismatches == MainSpec => [](main # "mismatch")
<1>1. MainInv => main # "mismatch"
  BY DEF MainInv, Program
<1> QED BY <1>1, MainHolds, PTL
====
