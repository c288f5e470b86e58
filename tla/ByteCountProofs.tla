--------------------------- MODULE ByteCountProofs ---------------------------
(***************************************************************************)
(* Facts about ByteSum: it is a natural number, it only depends on the     *)
(* values, it is monotone in them and in the set, and one element can be   *)
(* split off.                                                              *)
(***************************************************************************)
EXTENDS ByteCount, FiniteSetTheorems, TLAPS

\* A bar chart over a finite set has finitely many cells.
LEMMA CellsFinite ==
  ASSUME NEW S, IsFiniteSet(S), NEW f, \A x \in S : f[x] \in Nat
  PROVE  IsFiniteSet(Cells(f, S))
<1> DEFINE bar(x) == {x} \X (1 .. f[x])
           bars   == {bar(x) : x \in S}
           chart  == [x \in S |-> bar(x)]
<1>1. \A x \in S : IsFiniteSet(bar(x))
  <2>1. TAKE x \in S
  <2>2. f[x] \in Int
    OBVIOUS
  <2>3. IsFiniteSet(1 .. f[x])
    BY <2>2, FS_Interval
  <2>4. IsFiniteSet({x})
    BY FS_Singleton
  <2> QED
    BY <2>3, <2>4, FS_Product
<1>2. chart \in Surjection(S, bars)
  BY DEF Surjection
<1>3. IsFiniteSet(bars)
  BY <1>2, FS_Surjection
<1>4. IsFiniteSet(UNION bars)
  BY <1>1, <1>3, FS_UNION
<1> QED
  BY <1>4 DEF Cells

\* A sum of byte counts is a byte count.
LEMMA ByteSumType ==
  ASSUME NEW S, IsFiniteSet(S), NEW f, \A x \in S : f[x] \in Nat
  PROVE  ByteSum(f, S) \in Nat
BY CellsFinite, FS_CardinalityType DEF ByteSum

\* Only the values on S count.
LEMMA ByteSumEqual ==
  ASSUME NEW S, NEW f, NEW g, \A x \in S : f[x] = g[x]
  PROVE  ByteSum(f, S) = ByteSum(g, S)
<1>1. {{x} \X (1 .. f[x]) : x \in S} = {{x} \X (1 .. g[x]) : x \in S}
  OBVIOUS
<1> QED
  BY <1>1 DEF ByteSum, Cells

\* Smaller values on a smaller set have a smaller sum.
LEMMA ByteSumMonotone ==
  ASSUME NEW S, IsFiniteSet(S), NEW T \in SUBSET S, NEW f, NEW g,
         \A x \in S : g[x] \in Nat,
         \A x \in T : f[x] \in Nat /\ f[x] <= g[x]
  PROVE  ByteSum(f, T) <= ByteSum(g, S)
<1>1. Cells(f, T) \subseteq Cells(g, S)
  <2>1. SUFFICES ASSUME NEW x \in T, NEW c \in {x} \X (1 .. f[x])
                 PROVE  c \in {x} \X (1 .. g[x])
    BY DEF Cells
  <2>2. f[x] \in Nat /\ g[x] \in Nat /\ f[x] <= g[x]
    OBVIOUS
  <2>3. 1 .. f[x] \subseteq 1 .. g[x]
    BY <2>2
  <2> QED
    BY <2>3
<1>2. IsFiniteSet(Cells(g, S))
  BY CellsFinite
<1> QED
  BY <1>1, <1>2, FS_Subset DEF ByteSum

\* One element split off.
LEMMA ByteSumSplit ==
  ASSUME NEW S, IsFiniteSet(S), NEW f, \A y \in S : f[y] \in Nat, NEW x \in S
  PROVE  ByteSum(f, S) = f[x] + ByteSum(f, S \ {x})
<1> DEFINE bar  == {x} \X (1 .. f[x])
           rest == Cells(f, S \ {x})
<1>1. f[x] \in Nat
  OBVIOUS
<1>2. IsFiniteSet(1 .. f[x]) /\ Cardinality(1 .. f[x]) = f[x]
  <2>1. 1 \in Int /\ f[x] \in Int
    BY <1>1
  <2>2. Cardinality(1 .. f[x]) = IF 1 > f[x] THEN 0 ELSE f[x] - 1 + 1
    BY <2>1, FS_Interval
  <2>3. IsFiniteSet(1 .. f[x])
    BY <2>1, FS_Interval
  <2> QED
    BY <1>1, <2>2, <2>3
<1>3. IsFiniteSet({x}) /\ Cardinality({x}) = 1
  BY FS_Singleton
<1>4. IsFiniteSet(bar) /\ Cardinality(bar) = 1 * f[x]
  BY <1>2, <1>3, FS_Product
<1>5. IsFiniteSet(rest)
  <2>1. IsFiniteSet(S \ {x})
    BY FS_RemoveElement
  <2> QED
    BY <2>1, CellsFinite
<1>6. Cells(f, S) = bar \cup rest
  BY DEF Cells
<1>7. bar \cap rest = {}
  BY DEF Cells
<1>8. Cardinality(bar \cup rest) = Cardinality(bar) + Cardinality(rest) - Cardinality({})
  <2> HIDE DEF bar, rest
  <2>1. Cardinality(bar \cup rest)
          = Cardinality(bar) + Cardinality(rest) - Cardinality(bar \cap rest)
    BY <1>4, <1>5, FS_Union
  <2> QED
    BY <1>7, <2>1
<1>9. Cardinality(rest) \in Nat /\ Cardinality({}) = 0
  BY <1>5, FS_CardinalityType, FS_EmptySet
<1> QED
  BY <1>1, <1>4, <1>6, <1>8, <1>9 DEF ByteSum
=============================================================================
