------------------------- MODULE Selections_proofs -------------------------
(***************************************************************************)
(* Facts about least and greatest elements and about selected elements of  *)
(* a sequence, for the proofs about the streaming engine.                  *)
(***************************************************************************)
EXTENDS Selections, FiniteSetsExt, FiniteSetTheorems, WellFoundedInduction, TLAPS

\* A set of naturals that is not empty has a least element, the one Min picks.
LEMMA MinOfNaturals ==
  ASSUME NEW S \in SUBSET Nat, S # {}
  PROVE  Min(S) \in S /\ \A y \in S : Min(S) <= y
<1> DEFINE R == OpToRel(<, Nat)
<1>1. R = {pair \in Nat \X Nat : pair[1] < pair[2]}
  BY Zenon DEF OpToRel
<1>2. IsWellFoundedOn(R, Nat)
  BY NatLessThanWellFounded, Zenon
<1> HIDE DEF R
<1>3. PICK x \in S : \A y \in S : ~(<<y, x>> \in R)
  BY <1>2, WFMin, Zenon
<1>4. \A y \in S : x <= y
  <2> TAKE y \in S
  <2>1. /\ <<y, x>> \in Nat \X Nat
        /\ <<y, x>>[1] = y
        /\ <<y, x>>[2] = x
    BY SMT
  <2>2. ~(<<y, x>>[1] < <<y, x>>[2])
    BY <1>3, <1>1, <2>1, Zenon
  <2>3. QED
    BY <2>1, <2>2, SMT
<1>5. QED
  BY <1>4 DEF Min

\* Induction over a set of naturals: a set that holds 0 and the successor of
\* each of its members that is below n holds everything up to n.
LEMMA UpToInduction ==
  ASSUME NEW n \in Nat, NEW Good \in SUBSET Nat,
         0 \in Good,
         \A i \in 0..(n - 1) : i \in Good => i + 1 \in Good
  PROVE  \A i \in 0..n : i \in Good
<1> DEFINE Bad == {i \in 0..n : i \notin Good}
<1>1. SUFFICES ASSUME Bad # {} PROVE FALSE
  OBVIOUS
<1>2. Bad \in SUBSET Nat
  OBVIOUS
<1>3. PICK m \in Bad : \A y \in Bad : m <= y
  <2> HIDE DEF Bad
  <2>1. QED
    BY <1>1, <1>2, MinOfNaturals
<1>4. m > 0 /\ m - 1 \in 0..(n - 1)
  OBVIOUS
<1>5. m - 1 \in Good
  BY <1>3, <1>4
<1>6. QED
  BY <1>4, <1>5

\* A set of integers that is not empty and has an upper bound has a greatest
\* element, the one Max picks.
LEMMA MaxOfBounded ==
  ASSUME NEW S \in SUBSET Int, S # {}, NEW b \in Int, \A x \in S : x <= b
  PROVE  Max(S) \in S /\ \A y \in S : Max(S) >= y
<1> DEFINE D == {b - x : x \in S}
<1>1. D \in SUBSET Nat /\ D # {}
  <2>1. \A x \in S : b - x \in Nat
    OBVIOUS
  <2>2. PICK x \in S : TRUE
    OBVIOUS
  <2>3. b - x \in D
    OBVIOUS
  <2>4. QED
    BY <2>1, <2>3
<1>2. PICK d \in D : \A y \in D : d <= y
  <2> HIDE DEF D
  <2>1. QED
    BY <1>1, MinOfNaturals
<1>3. PICK x \in S : d = b - x
  OBVIOUS
<1>4. \A y \in S : x >= y
  <2> TAKE y \in S
  <2>1. b - y \in D
    OBVIOUS
  <2>2. b - x <= b - y
    BY <1>2, <1>3, <2>1
  <2>3. QED
    BY <2>2
<1>5. QED
  BY <1>4 DEF Max

-----------------------------------------------------------------------------
(* The selected elements of a sequence. *)

\* A set of indices of a sequence, and each of its initial parts, is finite.
LEMMA IndicesFinite ==
  ASSUME NEW n \in Nat, NEW idx \in SUBSET (1..n)
  PROVE  /\ Cardinality(idx) \in Nat
         /\ \A i \in Int : /\ IsFiniteSet({j \in idx : j <= i})
                           /\ Rank(idx, i) \in Nat
<1>1. IsFiniteSet(1..n)
  BY FS_Interval
<1>2. IsFiniteSet(idx)
  BY <1>1, FS_Subset
<1>3. \A i \in Int : {j \in idx : j <= i} \in SUBSET idx
  OBVIOUS
<1>4. \A i \in Int : IsFiniteSet({j \in idx : j <= i})
  BY <1>2, <1>3, FS_Subset
<1>5. QED
  BY <1>2, <1>4, FS_CardinalityType DEF Rank

\* The rank of an index grows by one exactly where an index is selected.
LEMMA RankSteps ==
  ASSUME NEW n \in Nat, NEW idx \in SUBSET (1..n), NEW i \in 0..(n - 1)
  PROVE  Rank(idx, i + 1) = IF i + 1 \in idx THEN Rank(idx, i) + 1
                                             ELSE Rank(idx, i)
<1> DEFINE Below == {j \in idx : j <= i}
           Next  == {j \in idx : j <= i + 1}
<1>0. \A j \in idx : j \in Int /\ j > 0 /\ j <= n
  OBVIOUS
<1>1. IsFiniteSet(Below)
  <2>1. i \in Int
    OBVIOUS
  <2>2. QED
    BY <2>1, IndicesFinite
<1>2. CASE i + 1 \in idx
  <2>0. \A j \in idx : j <= i + 1 <=> (j <= i \/ j = i + 1)
    BY <1>0
  <2>1. Next = Below \cup {i + 1} /\ i + 1 \notin Below
    <3>1. ~(i + 1 <= i)
      OBVIOUS
    <3>2. QED
      BY <1>2, <2>0, <3>1, Zenon
  <2> HIDE DEF Below, Next
  <2>2. Cardinality(Next) = Cardinality(Below) + 1
    BY <1>1, <2>1, FS_AddElement
  <2> USE DEF Below, Next
  <2>3. QED
    BY <1>2, <2>2 DEF Rank
<1>3. CASE i + 1 \notin idx
  <2>0. \A j \in idx : j <= i + 1 <=> j <= i
    BY <1>0, <1>3
  <2>1. Next = Below
    BY <2>0, Zenon
  <2>2. QED
    BY <1>3, <2>1 DEF Rank
<1>4. QED
  BY <1>2, <1>3

\* Every position of a selection has an index: the k-th selected one.
LEMMA NthSelected ==
  ASSUME NEW n \in Nat, NEW idx \in SUBSET (1..n), NEW k \in 1..Cardinality(idx)
  PROVE  Nth(idx, k) \in idx /\ Rank(idx, Nth(idx, k)) = k
<1> DEFINE Reach == {i \in 0..n : Rank(idx, i) >= k}
<1>0. \A j \in idx : j \in Int /\ j > 0 /\ j <= n
  OBVIOUS
<1>1. \A i \in 0..n : Rank(idx, i) \in Nat
  <2>1. \A i \in 0..n : i \in Int
    OBVIOUS
  <2>2. \A i \in Int : Rank(idx, i) \in Nat
    BY IndicesFinite
  <2>3. QED
    BY <2>1, <2>2
<1>2. Rank(idx, 0) = 0
  <2>1. {j \in idx : j <= 0} = {}
    <3>1. \A j \in idx : ~(j <= 0)
      BY <1>0
    <3>2. QED
      BY <3>1, Zenon
  <2>2. QED
    BY <2>1, FS_EmptySet DEF Rank
<1>3. Rank(idx, n) = Cardinality(idx)
  <2>1. {j \in idx : j <= n} = idx
    BY <1>0
  <2>2. QED
    BY <2>1 DEF Rank
<1>4. n \in Reach
  BY <1>1, <1>3
<1>5. PICK i \in Reach : \A j \in Reach : i <= j
  <2>1. Reach \in SUBSET Nat
    OBVIOUS
  <2> HIDE DEF Reach
  <2>2. QED
    BY <1>4, <2>1, MinOfNaturals
<1>6. i \in 1..n
  BY <1>2, <1>5
<1>7. Rank(idx, i - 1) < k
  <2>1. i - 1 \in 0..n /\ i - 1 \notin Reach
    BY <1>5, <1>6
  <2>2. QED
    BY <1>1, <2>1
<1>8. i \in idx /\ Rank(idx, i) = k
  <2>1. i - 1 \in 0..(n - 1) /\ (i - 1) + 1 = i
    BY <1>6
  <2>2. Rank(idx, i) = IF i \in idx THEN Rank(idx, i - 1) + 1
                                    ELSE Rank(idx, i - 1)
    BY <2>1, RankSteps
  <2>3. Rank(idx, i) >= k /\ Rank(idx, i) \in Nat /\ Rank(idx, i - 1) \in Nat
    BY <1>1, <1>5, <1>6
  <2>4. QED
    BY <1>7, <2>2, <2>3
<1>9. QED
  BY <1>8 DEF Nth

\* A selection is a sequence whose elements are the selected ones.
LEMMA SelectionType ==
  ASSUME NEW T, NEW s \in Seq(T), NEW idx \in SUBSET (DOMAIN s)
  PROVE  /\ At(s, idx) \in Seq(T)
         /\ Len(At(s, idx)) = Cardinality(idx)
         /\ \A k \in 1..Len(At(s, idx)) :
              \E i \in idx : At(s, idx)[k] = s[i]
<1>1. DOMAIN s = 1..Len(s) /\ Len(s) \in Nat
  OBVIOUS
<1>2. Cardinality(idx) \in Nat
  <2>1. idx \in SUBSET (1..Len(s))
    BY <1>1
  <2>2. QED
    BY <1>1, <2>1, IndicesFinite
<1>3. \A k \in 1..Cardinality(idx) : Nth(idx, k) \in idx
  BY <1>1, NthSelected
<1>4. \A k \in 1..Cardinality(idx) : s[Nth(idx, k)] \in T
  BY <1>1, <1>3
<1>5. /\ At(s, idx) \in Seq(T)
      /\ Len(At(s, idx)) = Cardinality(idx)
  BY <1>2, <1>4 DEF At
<1>6. \A k \in 1..Cardinality(idx) : At(s, idx)[k] = s[Nth(idx, k)]
  BY DEF At
<1>7. QED
  BY <1>3, <1>5, <1>6

\* Slices of a sequence are sequences, and what they hold.
LEMMA SliceType ==
  ASSUME NEW T, NEW s \in Seq(T), NEW i \in 0..Len(s)
  PROVE  /\ UpTo(s, i) \in Seq(T)
         /\ Len(UpTo(s, i)) = i
         /\ \A k \in 1..i : UpTo(s, i)[k] = s[k]
         /\ From(s, i) \in Seq(T)
         /\ Len(From(s, i)) = Len(s) - i
         /\ \A k \in 1..(Len(s) - i) : From(s, i)[k] = s[k + i]
BY DEF UpTo, From

\* A concatenation begins with its first part and goes on with its second.
LEMMA ConcatenationFacts ==
  ASSUME NEW T, NEW a \in Seq(T), NEW b \in Seq(T)
  PROVE  /\ a \o b \in Seq(T)
         /\ Len(a \o b) = Len(a) + Len(b)
         /\ \A i \in 1..Len(a) : (a \o b)[i] = a[i]
         /\ \A i \in (Len(a) + 1)..(Len(a) + Len(b)) :
              /\ i - Len(a) \in DOMAIN b
              /\ (a \o b)[i] = b[i - Len(a)]
OBVIOUS

\* A number is so many times its divisor and what is left.
LEMMA Quotients ==
  ASSUME NEW n \in Nat, NEW d \in Nat \ {0}
  PROVE  /\ n \div d \in Nat /\ n % d \in 0..d - 1
         /\ n = d * (n \div d) + (n % d)
<1>1. n \div d \in Nat
  OBVIOUS
<1>2. n % d \in 0..d - 1
  OBVIOUS
<1>3. n = d * (n \div d) + (n % d)
  OBVIOUS
<1>4. QED
  BY <1>1, <1>2, <1>3

=============================================================================
