------------------------ MODULE LocalAgreement_proofs ------------------------
(***************************************************************************)
(* What the streaming engine and its driver guarantee for every decode,    *)
(* every agreement count, every prefill budget, every time resolution and  *)
(* every stride and push.                                                  *)
(***************************************************************************)
EXTENDS AgreementDriver, Selections_proofs

\* A tick on the grid of representable instants is one.
LEMMA GridInstant ==
  ASSUME NEW k \in Nat
  PROVE  k * InstantTicks \in Instant
<1>1. k * InstantTicks \in Nat /\ k <= k * InstantTicks
  BY TickAssumption
<1>2. QED
  BY <1>1 DEF Instant

\* Rounded division by twice a positive width brackets its argument.
LEMMA RoundedDivision ==
  ASSUME NEW x \in Nat, NEW w \in Nat \ {0}
  PROVE  LET q == (2 * x + w) \div (2 * w)
         IN  /\ q \in Nat
             /\ 2 * (q * w) <= 2 * x + w
             /\ 2 * ((q + 1) * w) > 2 * x + w
             /\ \A m \in Nat : 2 * (m * w) <= 2 * x + w => m <= q
<1> DEFINE q == (2 * x + w) \div (2 * w)
<1>1. q \in Nat
  OBVIOUS
<1>2. 2 * (q * w) <= 2 * x + w /\ 2 * ((q + 1) * w) > 2 * x + w
  OBVIOUS
<1>3. \A m \in Nat : 2 * (m * w) <= 2 * x + w => m <= q
  <2> HIDE DEF q
  <2>1. SUFFICES ASSUME NEW m \in Nat, 2 * (m * w) <= 2 * x + w, m >= q + 1
                 PROVE  FALSE
    BY <1>1
  <2>2. m * w >= (q + 1) * w
    BY <1>1, <2>1
  <2>3. m * w \in Nat /\ (q + 1) * w \in Nat
    BY <1>1
  <2>4. QED
    BY <1>2, <2>1, <2>2, <2>3
<1>4. QED
  BY <1>1, <1>2, <1>3

\* The instant an empty holdback is anchored at is representable and past the
\* settled one, in seconds and in samples: one next_up is indeed enough.
LEMMA PastTheSettledInstantFacts ==
  ASSUME NEW settled \in Nat
  PROVE  /\ PastTheSettledInstant(settled) \in Instant
         /\ PastTheSettledInstant(settled) > settled
         /\ ClipSeekSample(PastTheSettledInstant(settled))
              > ClipSeekSample(settled)
<1> DEFINE sample == ClipSeekSample(settled)
           base   == (sample + 1) * SampleTicks
           steps  == (2 * base + InstantTicks) \div (2 * InstantTicks)
           first  == Nearest(base)
           beyond == first + InstantTicks
           Past(t) == t > settled /\ ClipSeekSample(t) > sample
           S == {t \in {first, beyond} : Past(t)}
<1>1. SampleTicks \in Nat \ {0} /\ InstantTicks \in Nat \ {0}
  BY TickAssumption
<1>2. sample \in Nat /\ 2 * base > 2 * settled + SampleTicks
  BY <1>1, RoundedDivision DEF ClipSeekSample
<1>3. base \in Nat
  BY <1>1, <1>2
<1> HIDE DEF base, sample
<1>4. steps \in Nat /\ 2 * ((steps + 1) * InstantTicks) > 2 * base + InstantTicks
  BY <1>1, <1>3, RoundedDivision
<1>5. first = steps * InstantTicks
  BY DEF Nearest
<1> HIDE DEF steps, first
<1>6. beyond = (steps + 1) * InstantTicks
  BY <1>1, <1>4, <1>5
<1>7. first \in Instant /\ beyond \in Instant
  BY <1>4, <1>5, <1>6, GridInstant
<1>8. first \in Nat /\ beyond \in Nat
  BY <1>7 DEF Instant
<1> HIDE DEF beyond
<1>9. 2 * beyond > 2 * base
  BY <1>1, <1>3, <1>4, <1>6, <1>8
<1>10. beyond > settled
  BY <1>1, <1>2, <1>3, <1>8, <1>9
<1>11. ClipSeekSample(beyond) > sample
  <2>1. 2 * ((sample + 1) * SampleTicks) <= 2 * beyond + SampleTicks
    BY <1>1, <1>3, <1>8, <1>9 DEF base
  <2>2. sample + 1 <= ClipSeekSample(beyond) /\ ClipSeekSample(beyond) \in Nat
    BY <1>1, <1>2, <1>8, <2>1, RoundedDivision DEF ClipSeekSample
  <2>3. QED
    BY <1>2, <2>2
<1>12. S \in SUBSET Nat /\ S # {}
  <2>1. beyond \in S
    BY <1>10, <1>11
  <2>2. QED
    BY <1>8, <2>1
<1>13. Min(S) \in S
  BY <1>12, MinOfNaturals, Zenon
<1>14. PastTheSettledInstant(settled) = Min(S)
  BY DEF PastTheSettledInstant, first, beyond, base, sample
<1>15. QED
  BY <1>7, <1>13, <1>14 DEF sample
-----------------------------------------------------------------------------
(* The operators of an advance. *)

\* The starts of a word list are instants, and a list that is not empty has a
\* highest one.
LEMMA StartsFacts ==
  ASSUME NEW words \in Seq(Word)
  PROVE  /\ Starts(words) \in SUBSET Nat
         /\ Starts(words) \subseteq Instant
         /\ words # <<>> => /\ Max(Starts(words)) \in Starts(words)
                            /\ \A s \in Starts(words) : Max(Starts(words)) >= s
<1>1. \A i \in DOMAIN words : words[i].start \in Instant /\ words[i].start \in Nat
  <2>1. \A i \in DOMAIN words : words[i] \in Word
    OBVIOUS
  <2>2. \A w \in Word : w.start \in Instant
    BY DEF Word
  <2>3. Instant \subseteq Nat
    BY DEF Instant
  <2>4. QED
    BY <2>1, <2>2, <2>3
<1>2. Starts(words) \in SUBSET Nat /\ Starts(words) \subseteq Instant
  BY <1>1 DEF Starts
<1>3. ASSUME words # <<>>
      PROVE  /\ Max(Starts(words)) \in Starts(words)
             /\ \A s \in Starts(words) : Max(Starts(words)) >= s
  <2> DEFINE n == Len(words)
             Good == {i \in Nat : i <= n =>
                        \E b \in Nat : \A j \in 1..i : words[j].start <= b}
  <2>1. n \in Nat /\ n > 0 /\ DOMAIN words = 1..n
    BY <1>3
  <2>2. 0 \in Good
    <3>1. \A j \in 1..0 : words[j].start <= 0
      OBVIOUS
    <3>2. QED
      BY <3>1
  <2>3. ASSUME NEW i \in 0..(n - 1), i \in Good PROVE i + 1 \in Good
    <3>0. i <= n /\ (i <= n => \E b \in Nat : \A j \in 1..i : words[j].start <= b)
      <4>1. i <= n
        BY <2>1, <2>3
      <4>2. QED
        BY <4>1, <2>3, Zenon
    <3>1. PICK b \in Nat : \A j \in 1..i : words[j].start <= b
      BY <3>0, Zenon
    <3>2. i + 1 \in 1..n /\ words[i + 1].start \in Nat
      BY <1>1, <2>1
    <3>3. PICK c \in {b, words[i + 1].start} : b <= c /\ words[i + 1].start <= c
      BY <3>2
    <3>4. \A j \in 1..(i + 1) : words[j].start <= c
      <4>1. SUFFICES ASSUME NEW j \in 1..(i + 1) PROVE words[j].start <= c
        OBVIOUS
      <4>2. j \in 1..n /\ words[j].start \in Nat
        BY <1>1, <2>1
      <4>3. j \in 1..i \/ j = i + 1
        OBVIOUS
      <4>4. QED
        BY <3>1, <3>3, <4>2, <4>3
    <3>5. c \in Nat /\ i + 1 \in Nat
      BY <3>2
    <3>6. QED
      BY <3>4, <3>5
  <2>4. n \in Good
    <3>1. Good \in SUBSET Nat
      OBVIOUS
    <3> HIDE DEF Good
    <3>2. \A i \in 0..n : i \in Good
      BY <2>1, <2>2, <2>3, <3>1, UpToInduction
    <3>3. QED
      BY <2>1, <3>2
  <2>5. PICK b \in Nat : \A j \in 1..n : words[j].start <= b
    BY <2>1, <2>4
  <2>6. \A s \in Starts(words) : s <= b
    BY <2>1, <2>5 DEF Starts
  <2>7. Starts(words) # {}
    <3>1. 1 \in DOMAIN words
      BY <2>1
    <3>2. QED
      BY <3>1 DEF Starts
  <2>8. Starts(words) \in SUBSET Int /\ b \in Int
    BY <1>2
  <2>9. QED
    BY <2>6, <2>7, <2>8, MaxOfBounded
<1>4. QED
  BY <1>2, <1>3

\* Filtering at a watermark leaves words that start at or past it.
LEMMA FilterFacts ==
  ASSUME NEW words \in Seq(Word), NEW watermark \in Nat
  PROVE  /\ WatermarkFiltered(words, watermark) \in Seq(Word)
         /\ \A s \in Starts(WatermarkFiltered(words, watermark)) : s >= watermark
<1> DEFINE idx == {i \in DOMAIN words : words[i].start >= watermark}
           kept == At(words, idx)
<1>1. idx \in SUBSET (DOMAIN words)
  OBVIOUS
<1>2. \A i \in idx : words[i].start >= watermark
  OBVIOUS
<1>3. /\ kept \in Seq(Word)
      /\ \A k \in 1..Len(kept) : \E i \in idx : kept[k] = words[i]
  <2> HIDE DEF idx
  <2>1. QED
    BY <1>1, SelectionType
<1>4. WatermarkFiltered(words, watermark) = kept
  BY DEF WatermarkFiltered
<1> HIDE DEF idx, kept
<1>5. \A s \in Starts(kept) : s >= watermark
  BY <1>2, <1>3 DEF Starts
<1>6. QED
  BY <1>3, <1>4, <1>5

\* The agreed prefix is a prefix of the newer hypothesis.
LEMMA CommonPrefixFacts ==
  ASSUME NEW previous \in Seq(Word), NEW current \in Seq(Word)
  PROVE  CommonPrefixLength(previous, current) \in 0..Len(current)
<1> DEFINE S == {n \in 0..Len(current) :
                   /\ n <= Len(previous)
                   /\ \A i \in 1..n : previous[i].text = current[i].text}
<1>1. S \in SUBSET Int /\ \A n \in S : n <= Len(current)
  OBVIOUS
<1>2. 0 \in S
  OBVIOUS
<1>3. S \subseteq 0..Len(current)
  OBVIOUS
<1>4. Max(S) \in S
  <2>1. S # {} /\ Len(current) \in Int
    BY <1>2
  <2> HIDE DEF S
  <2>2. QED
    BY <1>1, <2>1, MaxOfBounded, Zenon
<1>5. QED
  BY <1>3, <1>4 DEF CommonPrefixLength

\* Where an advance cuts: inside the agreed prefix only where a sparing
\* watermark exists.
LEMMA SplitFacts ==
  ASSUME NEW hypothesis \in Seq(Word), NEW confirmed \in Seq(Word),
         NEW agreed \in 0..Len(hypothesis)
  PROVE  LET split == SplitAtAStrictBoundary(hypothesis, agreed, confirmed)
         IN  /\ split \in 0..agreed
             /\ split < agreed =>
                  ASparingWatermarkExists(
                    Starts(confirmed) \cup Starts(UpTo(hypothesis, split)),
                    Starts(From(hypothesis, split)))
<1> DEFINE Legal(k) == ASparingWatermarkExists(
                         Starts(confirmed) \cup Starts(UpTo(hypothesis, k)),
                         Starts(From(hypothesis, k)))
           common == UpTo(hypothesis, agreed)
           cuts == {k \in 0..Len(common) :
                      ~(PrefillTokens(From(common, k)) > PrefillBudget
                          /\ k < Len(common))}
           floor == BudgetedSplit(common)
           widened == Max({agreed - AgreementCountNeeded, floor})
           forward == {k \in widened..(agreed - 1) : Legal(k)}
           backward == {k \in floor..(widened - 1) : Legal(k)}
           split == SplitAtAStrictBoundary(hypothesis, agreed, confirmed)
<1>1. agreed \in Nat /\ Len(common) = agreed
  BY SliceType
<1>2. floor \in 0..agreed
  <2>1. cuts \in SUBSET Nat /\ cuts \subseteq 0..agreed
    BY <1>1
  <2>2. agreed \in cuts
    BY <1>1
  <2>3. floor = Min(cuts)
    BY DEF BudgetedSplit
  <2> HIDE DEF cuts, floor
  <2>4. Min(cuts) \in cuts
    BY <2>1, <2>2, MinOfNaturals
  <2>5. QED
    BY <2>1, <2>3, <2>4
<1> HIDE DEF floor, common, cuts
<1>3. AgreementCountNeeded \in Nat
  BY CountAssumption DEF AgreementCountNeeded
<1>4. widened \in Int /\ widened >= floor /\ widened <= agreed
  <2> DEFINE both == {agreed - AgreementCountNeeded, floor}
  <2>1. both \in SUBSET Int /\ both # {} /\ agreed \in Int
        /\ \A x \in both : x <= agreed
    BY <1>1, <1>2, <1>3
  <2>2. Max(both) \in both /\ \A y \in both : Max(both) >= y
    <3> HIDE DEF both
    <3>1. QED
      BY <2>1, MaxOfBounded
  <2>3. floor \in both /\ both \subseteq Int
    BY <2>1
  <2>4. widened = Max(both)
    OBVIOUS
  <2> HIDE DEF both, widened
  <2>5. QED
    BY <2>1, <2>2, <2>3, <2>4
<1> HIDE DEF widened
<1>5. split = IF forward # {} THEN Min(forward)
              ELSE IF backward # {} THEN Max(backward) ELSE agreed
  BY DEF SplitAtAStrictBoundary, floor, widened, common
<1>6. CASE forward # {}
  <2>1. forward \in SUBSET Nat
    BY <1>2, <1>4
  <2>2. Min(forward) \in forward
    <3> HIDE DEF forward
    <3>1. QED
      BY <1>6, <2>1, MinOfNaturals
  <2>3. split \in forward
    BY <1>5, <1>6, <2>2
  <2>4. split \in 0..agreed /\ Legal(split)
    BY <1>1, <1>2, <1>4, <2>3
  <2>5. QED
    BY <2>4
<1>7. CASE forward = {} /\ backward # {}
  <2>1. backward \in SUBSET Int /\ \A k \in backward : k <= widened
    BY <1>2, <1>4
  <2>2. Max(backward) \in backward
    <3> HIDE DEF backward, Legal
    <3>1. QED
      BY <1>4, <1>7, <2>1, MaxOfBounded
  <2>3. split \in backward
    BY <1>5, <1>7, <2>2
  <2>4. split \in 0..agreed /\ Legal(split)
    BY <1>1, <1>2, <1>4, <2>3
  <2>5. QED
    BY <2>4
<1>8. CASE forward = {} /\ backward = {}
  <2>1. split = agreed
    BY <1>5, <1>8
  <2> HIDE DEF split
  <2>2. split \in 0..agreed /\ ~(split < agreed)
    BY <1>1, <2>1
  <2>3. QED
    BY <2>2 DEF split
<1>9. QED
  BY <1>6, <1>7, <1>8

\* An agreed prefix the prefill can carry whole is never confirmed whole: split
\* 0 is legal then, everything settled being behind everything offered.
LEMMA SplitLeavesAHoldback ==
  ASSUME NEW hypothesis \in Seq(Word), NEW confirmed \in Seq(Word),
         NEW agreed \in 1..Len(hypothesis),
         \A s \in Starts(confirmed), u \in Starts(hypothesis) : s < u,
         ~(PrefillTokens(UpTo(hypothesis, agreed)) > PrefillBudget)
  PROVE  SplitAtAStrictBoundary(hypothesis, agreed, confirmed) < agreed
<1> DEFINE Legal(k) == ASparingWatermarkExists(
                         Starts(confirmed) \cup Starts(UpTo(hypothesis, k)),
                         Starts(From(hypothesis, k)))
           common == UpTo(hypothesis, agreed)
           cuts == {k \in 0..Len(common) :
                      ~(PrefillTokens(From(common, k)) > PrefillBudget
                          /\ k < Len(common))}
           floor == BudgetedSplit(common)
           widened == Max({agreed - AgreementCountNeeded, floor})
           forward == {k \in widened..(agreed - 1) : Legal(k)}
           backward == {k \in floor..(widened - 1) : Legal(k)}
           split == SplitAtAStrictBoundary(hypothesis, agreed, confirmed)
<1>1. agreed \in Nat /\ agreed \in 0..Len(hypothesis)
      /\ common \in Seq(Word) /\ Len(common) = agreed
  BY SliceType
<1>2. Legal(0)
  <2>1. From(hypothesis, 0) = hypothesis
    BY DEF From
  <2>2. Starts(UpTo(hypothesis, 0)) = {}
    BY DEF UpTo, Starts
  <2>3. QED
    BY <2>1, <2>2 DEF ASparingWatermarkExists
<1> HIDE DEF Legal
<1>3. floor = 0
  <2>1. From(common, 0) = common
    <3> HIDE DEF common
    <3>1. QED
      BY <1>1 DEF From
  <2>2. 0 \in cuts
    BY <1>1, <2>1
  <2>3. floor = Min(cuts) /\ cuts \in SUBSET Nat
    BY <1>1 DEF BudgetedSplit
  <2> HIDE DEF cuts, floor, common
  <2>4. Min(cuts) \in Nat /\ Min(cuts) <= 0
    BY <2>2, <2>3, MinOfNaturals
  <2>5. QED
    BY <2>3, <2>4
<1> HIDE DEF floor, common, cuts
<1>4. AgreementCountNeeded \in Nat \ {0}
  BY CountAssumption DEF AgreementCountNeeded
<1>5. widened \in Nat /\ widened < agreed
  <2> DEFINE both == {agreed - AgreementCountNeeded, floor}
  <2>1. both \in SUBSET Int /\ both # {} /\ agreed - 1 \in Int
        /\ \A x \in both : x <= agreed - 1
    BY <1>1, <1>3, <1>4
  <2>2. Max(both) \in both /\ \A y \in both : Max(both) >= y
    <3> HIDE DEF both
    <3>1. QED
      BY <2>1, MaxOfBounded
  <2>3. 0 \in both /\ widened = Max(both)
    BY <1>3
  <2> HIDE DEF both, widened
  <2>4. Max(both) \in Int /\ Max(both) >= 0 /\ Max(both) <= agreed - 1
    BY <2>1, <2>2, <2>3
  <2>5. QED
    BY <2>3, <2>4
<1> HIDE DEF widened
<1>6. split = IF forward # {} THEN Min(forward)
              ELSE IF backward # {} THEN Max(backward) ELSE agreed
  BY DEF SplitAtAStrictBoundary, floor, widened, common, Legal
<1>7. forward # {} \/ backward # {}
  <2>1. CASE widened = 0
    <3>1. 0 \in widened..(agreed - 1)
      BY <1>1, <2>1
    <3>2. QED
      BY <1>2, <3>1
  <2>2. CASE widened > 0
    <3>1. 0 \in floor..(widened - 1)
      BY <1>3, <1>5, <2>2
    <3>2. QED
      BY <1>2, <3>1
  <2>3. QED
    BY <1>5, <2>1, <2>2
<1>8. CASE forward # {}
  <2>1. forward \in SUBSET Nat /\ \A k \in forward : k < agreed
    BY <1>1, <1>5
  <2>2. Min(forward) \in forward
    <3> HIDE DEF forward
    <3>1. QED
      BY <1>8, <2>1, MinOfNaturals
  <2> HIDE DEF forward, backward
  <2>3. QED
    BY <1>6, <1>8, <2>1, <2>2
<1>9. CASE forward = {} /\ backward # {}
  <2>1. /\ backward \in SUBSET Int
        /\ \A k \in backward : k <= widened
        /\ \A k \in backward : k < agreed
    BY <1>1, <1>3, <1>5
  <2>2. Max(backward) \in backward
    <3> HIDE DEF backward
    <3>1. widened \in Int
      BY <1>5
    <3>2. QED
      BY <1>9, <2>1, <3>1, MaxOfBounded
  <2> HIDE DEF forward, backward
  <2>3. QED
    BY <1>6, <1>9, <2>1, <2>2
<1>10. QED
  BY <1>7, <1>8, <1>9

\* The starts of a list and of its extension.
LEMMA StartsOfConcatenation ==
  ASSUME NEW a \in Seq(Word), NEW b \in Seq(Word)
  PROVE  Starts(a \o b) = Starts(a) \cup Starts(b)
<1>1. DOMAIN a = 1..Len(a) /\ DOMAIN b = 1..Len(b)
      /\ DOMAIN (a \o b) = 1..(Len(a) + Len(b)) /\ Len(a) \in Nat /\ Len(b) \in Nat
  OBVIOUS
<1>2. \A i \in DOMAIN a : i \in DOMAIN (a \o b) /\ (a \o b)[i] = a[i]
  BY <1>1
<1>3. \A i \in DOMAIN b : /\ Len(a) + i \in DOMAIN (a \o b)
                          /\ (a \o b)[Len(a) + i] = b[i]
  BY <1>1
<1>4. \A i \in DOMAIN (a \o b) : \/ i \in DOMAIN a /\ (a \o b)[i] = a[i]
                                 \/ /\ i - Len(a) \in DOMAIN b
                                    /\ (a \o b)[i] = b[i - Len(a)]
  BY <1>1
<1>5. Starts(a) \subseteq Starts(a \o b)
  BY <1>2, Zenon DEF Starts
<1>6. Starts(b) \subseteq Starts(a \o b)
  BY <1>3, Zenon DEF Starts
<1>7. Starts(a \o b) \subseteq Starts(a) \cup Starts(b)
  BY <1>4, Zenon DEF Starts
<1>8. QED
  BY <1>5, <1>6, <1>7

\* The starts of a slice are starts of the list.
LEMMA StartsOfSlices ==
  ASSUME NEW words \in Seq(Word), NEW i \in 0..Len(words)
  PROVE  /\ Starts(UpTo(words, i)) \subseteq Starts(words)
         /\ Starts(From(words, i)) \subseteq Starts(words)
         /\ i > 0 => words[1].start \in Starts(UpTo(words, i))
         /\ \A j \in (i + 1)..Len(words) :
              words[j].start \in Starts(From(words, i))
<1>1. /\ DOMAIN words = 1..Len(words)
      /\ DOMAIN UpTo(words, i) = 1..i
      /\ \A k \in 1..i : k \in DOMAIN words /\ UpTo(words, i)[k] = words[k]
      /\ DOMAIN From(words, i) = 1..(Len(words) - i)
      /\ \A k \in 1..(Len(words) - i) :
           k + i \in DOMAIN words /\ From(words, i)[k] = words[k + i]
  <2>1. i \in Nat /\ Len(words) \in Nat
    OBVIOUS
  <2>2. /\ UpTo(words, i) \in Seq(Word) /\ Len(UpTo(words, i)) = i
        /\ From(words, i) \in Seq(Word)
        /\ Len(From(words, i)) = Len(words) - i
        /\ \A k \in 1..i : UpTo(words, i)[k] = words[k]
        /\ \A k \in 1..(Len(words) - i) : From(words, i)[k] = words[k + i]
    BY SliceType
  <2>3. QED
    BY <2>1, <2>2
<1>2. Starts(UpTo(words, i)) \subseteq Starts(words)
  BY <1>1, Zenon DEF Starts
<1>3. Starts(From(words, i)) \subseteq Starts(words)
  <2>1. \A k \in DOMAIN From(words, i) :
          k + i \in DOMAIN words /\ From(words, i)[k] = words[k + i]
    BY <1>1
  <2>2. QED
    BY <2>1, Zenon DEF Starts
<1>4. i > 0 => words[1].start \in Starts(UpTo(words, i))
  <2>1. i > 0 => 1 \in 1..i
    OBVIOUS
  <2>2. QED
    BY <1>1, <2>1, Zenon DEF Starts
<1>5. \A j \in (i + 1)..Len(words) : words[j].start \in Starts(From(words, i))
  <2>1. \A j \in (i + 1)..Len(words) :
          j - i \in 1..(Len(words) - i) /\ (j - i) + i = j
    OBVIOUS
  <2>2. \A j \in (i + 1)..Len(words) :
          j - i \in DOMAIN From(words, i) /\ From(words, i)[j - i] = words[j]
    BY <1>1, <2>1
  <2>3. QED
    BY <2>2, Zenon DEF Starts
<1>6. QED
  BY <1>2, <1>3, <1>4, <1>5
-----------------------------------------------------------------------------
(* An advance. *)

\* The watermark of an advance: an instant past everything confirmed, not
\* behind the frontier its words were offered at, and behind no held-back word.
LEMMA WatermarkFacts ==
  ASSUME NEW hypothesis \in Seq(Word), NEW confirmed \in Seq(Word),
         NEW agreed \in 1..Len(hypothesis), NEW split \in 0..agreed,
         NEW frontier \in Nat,
         \A u \in Starts(hypothesis) : u >= frontier,
         split < agreed =>
           ASparingWatermarkExists(
             Starts(confirmed) \cup Starts(UpTo(hypothesis, split)),
             Starts(From(hypothesis, split)))
  PROVE  LET after == confirmed \o UpTo(hypothesis, split)
             mark == Watermark(hypothesis, agreed, split, after)
         IN  /\ after \in Seq(Word)
             /\ mark \in Instant
             /\ mark >= frontier
             /\ \A s \in Starts(after) : s < mark
             /\ \A s \in Starts(From(UpTo(hypothesis, agreed), split)) : s >= mark
<1> DEFINE settled == UpTo(hypothesis, split)
           after == confirmed \o settled
           unsettled == From(hypothesis, split)
           held == From(UpTo(hypothesis, agreed), split)
           high == IF after = <<>> THEN -1 ELSE Max(Starts(after))
           anchor == IF split < agreed
                       THEN hypothesis[split + 1].start
                       ELSE EmptyHoldbackAnchor(hypothesis[agreed], high)
           C == {anchor} \cup {u \in Starts(unsettled) : u > high}
           mark == Watermark(hypothesis, agreed, split, after)
<1>1. /\ split \in 0..Len(hypothesis) /\ agreed \in 0..Len(hypothesis)
      /\ split \in Nat /\ agreed \in Nat /\ Len(hypothesis) \in Nat
  OBVIOUS
<1>2. settled \in Seq(Word) /\ unsettled \in Seq(Word)
  BY <1>1, SliceType
<1>3. after \in Seq(Word) /\ Starts(after) = Starts(confirmed) \cup Starts(settled)
  BY <1>2, StartsOfConcatenation
<1>4. Starts(hypothesis) \in SUBSET Nat /\ Starts(unsettled) \subseteq Instant
      /\ Starts(unsettled) \subseteq Starts(hypothesis)
      /\ Starts(settled) \subseteq Starts(hypothesis)
  BY <1>1, <1>2, StartsFacts, StartsOfSlices
<1>5. Instant \subseteq Nat
  BY DEF Instant
<1> HIDE DEF settled, after, unsettled
<1>6. high \in Int /\ \A s \in Starts(after) : s <= high
  <2>1. CASE after = <<>>
    <3>1. Starts(after) = {}
      BY <2>1 DEF Starts
    <3>2. QED
      BY <2>1, <3>1
  <2>2. CASE after # <<>>
    <3>1. /\ Max(Starts(after)) \in Starts(after)
          /\ \A s \in Starts(after) : Max(Starts(after)) >= s
          /\ Starts(after) \in SUBSET Nat
      BY <1>3, <2>2, StartsFacts
    <3>2. QED
      BY <2>2, <3>1
  <2>3. QED
    BY <2>1, <2>2
<1>7. ASSUME split < agreed
      PROVE  /\ anchor \in Instant /\ anchor >= frontier /\ anchor > high
             /\ \A u \in Starts(unsettled) : u > high
  <2>1. hypothesis[split + 1].start \in Starts(unsettled)
    BY <1>1, <1>7, StartsOfSlices DEF unsettled
  <2>2. \A u \in Starts(unsettled) : u \in Nat /\ u > high
    <3>1. \A u \in Starts(unsettled) : u \in Nat
      BY <1>4, <1>5
    <3>2. CASE after = <<>>
      BY <3>1, <3>2
    <3>3. CASE after # <<>>
      <4>1. high \in Starts(after)
        BY <1>3, <3>3, StartsFacts
      <4>2. \A s \in Starts(after), u \in Starts(unsettled) : s < u
        BY <1>3, <1>7 DEF ASparingWatermarkExists, settled, unsettled
      <4>3. QED
        BY <3>1, <4>1, <4>2, <1>6
    <3>4. QED
      BY <3>2, <3>3
  <2>3. QED
    BY <1>4, <1>7, <2>1, <2>2
<1>8. ASSUME ~(split < agreed)
      PROVE  anchor \in Instant /\ anchor >= frontier /\ anchor > high
  <2>1. split = agreed /\ split > 0
    BY <1>8
  <2>2. hypothesis[1].start \in Starts(settled)
    BY <1>1, <2>1, StartsOfSlices DEF settled
  <2>3. high \in Starts(after)
    <3>1. after # <<>>
      <4>1. Starts(after) # {}
        BY <1>3, <2>2
      <4>2. QED
        BY <4>1 DEF Starts
    <3>2. QED
      BY <1>3, <3>1, StartsFacts
  <2>4. high \in Nat /\ high >= frontier
    <3>1. Starts(after) \in SUBSET Nat
      BY <1>3, StartsFacts
    <3>2. hypothesis[1].start >= frontier /\ hypothesis[1].start <= high
      BY <1>3, <1>4, <1>6, <2>2
    <3>3. hypothesis[1].start \in Nat
      BY <1>4, <2>2
    <3>4. QED
      BY <2>3, <3>1, <3>2, <3>3
  <2> DEFINE last == hypothesis[agreed]
             past == PastTheSettledInstant(high)
             both == {last.end, past}
  <2>5. past \in Instant /\ past > high
    BY <2>4, PastTheSettledInstantFacts
  <2>6. last.end \in Instant
    <3>1. last \in Word
      BY <1>1
    <3>2. \A w \in Word : w.end \in Instant
      BY DEF Word
    <3>3. QED
      BY <3>1, <3>2
  <2>7. anchor = Max(both)
    BY <2>1 DEF EmptyHoldbackAnchor
  <2> HIDE DEF last, past, high, anchor
  <2>7a. last.end \in Nat /\ past \in Nat
    BY <1>5, <2>5, <2>6
  <2>8. /\ both \in SUBSET Int
        /\ both # {}
        /\ last.end + past \in Int
        /\ \A x \in both : x <= last.end + past
    BY <2>7a
  <2>9. Max(both) \in both /\ \A y \in both : Max(both) >= y
    <3> HIDE DEF both
    <3>1. QED
      BY <2>8, MaxOfBounded
  <2>10. past \in both
    OBVIOUS
  <2>11. Max(both) \in Instant /\ Max(both) >= past
    BY <2>5, <2>6, <2>9, <2>10
  <2>12. Max(both) \in Nat
    BY <1>5, <2>11
  <2> HIDE DEF both
  <2>13. Max(both) > high /\ Max(both) >= frontier
    BY <2>7a, <2>4, <2>5, <2>11, <2>12
  <2>14. QED
    BY <2>7, <2>11, <2>13
<1>9. anchor \in Instant /\ anchor >= frontier /\ anchor > high
  BY <1>7, <1>8
<1>10. mark = Min(C)
  BY DEF Watermark, SparingWatermark, unsettled
<1> HIDE DEF anchor, high, mark
<1>11. C \subseteq Instant /\ anchor \in C
  BY <1>4, <1>9
<1>12. \A c \in C : c \in Nat /\ c >= frontier /\ c > high
  BY <1>4, <1>5, <1>9
<1>13. mark \in C /\ \A c \in C : mark <= c
  <2> HIDE DEF C
  <2>1. C \in SUBSET Nat /\ C # {}
    BY <1>11, <1>12
  <2>2. QED
    BY <1>10, <2>1, MinOfNaturals
<1>14. mark \in Instant /\ mark >= frontier /\ mark > high
  BY <1>11, <1>12, <1>13
<1>15. \A s \in Starts(after) : s < mark
  <2>1. Starts(after) \in SUBSET Nat /\ mark \in Nat
    BY <1>3, <1>5, <1>14, StartsFacts
  <2>2. QED
    BY <1>6, <1>14, <2>1
<1>16. \A s \in Starts(held) : s >= mark
  <2>1. UpTo(hypothesis, agreed) \in Seq(Word) /\ Len(UpTo(hypothesis, agreed)) = agreed
        /\ \A k \in 1..agreed : UpTo(hypothesis, agreed)[k] = hypothesis[k]
    BY <1>1, SliceType
  <2> DEFINE common == UpTo(hypothesis, agreed)
  <2>2. /\ held \in Seq(Word)
        /\ Len(held) = agreed - split
        /\ \A k \in 1..(agreed - split) :
             held[k] = UpTo(hypothesis, agreed)[k + split]
    <3>1. common \in Seq(Word) /\ Len(common) = agreed /\ split \in 0..Len(common)
      BY <2>1
    <3> HIDE DEF common
    <3>2. /\ From(common, split) \in Seq(Word)
          /\ Len(From(common, split)) = Len(common) - split
          /\ \A k \in 1..(Len(common) - split) :
               From(common, split)[k] = common[k + split]
      BY <3>1, SliceType
    <3>3. QED
      BY <3>1, <3>2 DEF common
  <2> HIDE DEF held
  <2>3. SUFFICES ASSUME NEW k \in 1..Len(held) PROVE held[k].start >= mark
    BY <2>2 DEF Starts
  <2>4. k \in 1..(agreed - split) /\ k + split \in 1..agreed
        /\ k + split \in (split + 1)..Len(hypothesis) /\ split < agreed
    BY <1>1, <2>2
  <2>5. held[k] = hypothesis[k + split]
    BY <2>1, <2>2, <2>4
  <2>6. held[k].start \in Starts(unsettled)
    BY <1>1, <2>4, <2>5, StartsOfSlices DEF unsettled
  <2>7. held[k].start \in C
    BY <1>7, <2>4, <2>6
  <2>8. QED
    BY <1>13, <1>12, <2>7
<1>17. QED
  BY <1>3, <1>14, <1>15, <1>16 DEF mark, after, settled

\* Everything the invariants need of a step that agrees.
LEMMA AdvanceFacts ==
  ASSUME TypeOK, SettledBehindWatermark, NEW r \in Results, IngestAgreeing(r)
  PROVE  LET hypothesis == hypothesisWords'
             agreed == CommonPrefixLength(prevWords', hypothesis)
             split == SplitAtAStrictBoundary(hypothesis, agreed, confirmedWords)
         IN  /\ hypothesis \in Seq(Word) /\ prevWords' \in Seq(Word)
             /\ prevResult' \in Seq(Word)
             /\ agreed \in 1..Len(hypothesis) /\ split \in 0..agreed
             /\ \A s \in Starts(hypothesis) : s >= lastAgreedSeconds
             /\ confirmedWords' = confirmedWords \o UpTo(hypothesis, split)
             /\ confirmedWords' \in Seq(Word)
             /\ lastAgreedWords' = From(UpTo(hypothesis, agreed), split)
             /\ lastAgreedWords' \in Seq(Word)
             /\ Len(lastAgreedWords') = agreed - split
             /\ lastAgreedSeconds' \in Instant
             /\ lastAgreedSeconds' >= lastAgreedSeconds
             /\ SettledBehindWatermark'
             /\ HoldbackOfferable'
<1> DEFINE hypothesis == hypothesisWords'
           agreed == CommonPrefixLength(prevWords', hypothesis)
           split == SplitAtAStrictBoundary(hypothesis, agreed, confirmedWords)
           common == UpTo(hypothesis, agreed)
<1>1. r.words \in Seq(Word)
  BY ResultsAssumption DEF Result
<1>2. lastAgreedSeconds \in Nat /\ prevResult \in Seq(Word) /\ confirmedWords \in Seq(Word)
  BY DEF TypeOK, Instant
<1>3. /\ hypothesis = WatermarkFiltered(r.words, lastAgreedSeconds)
      /\ prevWords' = WatermarkFiltered(prevResult, lastAgreedSeconds)
      /\ prevResult' = r.words
      /\ agreed >= AgreementCountNeeded
      /\ confirmedWords' = confirmedWords \o UpTo(hypothesis, split)
      /\ lastAgreedWords' = From(common, split)
      /\ lastAgreedSeconds' = Watermark(hypothesis, agreed, split, confirmedWords')
  BY DEF IngestAgreeing, Compare
<1>4. /\ hypothesis \in Seq(Word) /\ prevWords' \in Seq(Word)
      /\ \A s \in Starts(hypothesis) : s >= lastAgreedSeconds
  BY <1>1, <1>2, <1>3, FilterFacts
<1> HIDE DEF hypothesis
<1>5. agreed \in 1..Len(hypothesis)
  <2>1. agreed \in 0..Len(hypothesis)
    BY <1>4, CommonPrefixFacts
  <2>2. AgreementCountNeeded \in Nat /\ AgreementCountNeeded >= 1
    BY CountAssumption DEF AgreementCountNeeded
  <2> HIDE DEF agreed
  <2>3. QED
    BY <1>3, <2>1, <2>2
<1> HIDE DEF agreed
<1>6. /\ split \in 0..agreed
      /\ split < agreed =>
           ASparingWatermarkExists(
             Starts(confirmedWords) \cup Starts(UpTo(hypothesis, split)),
             Starts(From(hypothesis, split)))
  <2>1. agreed \in 0..Len(hypothesis)
    BY <1>5
  <2>2. QED
    BY <1>2, <1>4, <2>1, SplitFacts
<1> HIDE DEF split
<1>7. /\ confirmedWords' \in Seq(Word)
      /\ lastAgreedSeconds' \in Instant
      /\ lastAgreedSeconds' >= lastAgreedSeconds
      /\ \A s \in Starts(confirmedWords') : s < lastAgreedSeconds'
      /\ \A s \in Starts(lastAgreedWords') : s >= lastAgreedSeconds'
  BY <1>2, <1>3, <1>4, <1>5, <1>6, WatermarkFacts
<1>8. lastAgreedWords' \in Seq(Word) /\ Len(lastAgreedWords') = agreed - split
  <2>1. common \in Seq(Word) /\ Len(common) = agreed
    BY <1>4, <1>5, SliceType
  <2> HIDE DEF common
  <2>2. QED
    BY <1>3, <1>6, <2>1, SliceType
<1>9. QED
  BY <1>1, <1>3, <1>4, <1>5, <1>6, <1>7, <1>8
     DEF hypothesis, agreed, split, SettledBehindWatermark, HoldbackOfferable

-----------------------------------------------------------------------------
(* The theorems. *)

\* The inductive invariant: the two claims about instants, over typed state.
IndInv ==
  /\ TypeOK
  /\ SettledBehindWatermark
  /\ HoldbackOfferable

LEMMA InitInd == Init => IndInv
<1> SUFFICES ASSUME Init PROVE IndInv
  OBVIOUS
<1>1. 0 \in Instant
  BY TickAssumption DEF Instant
<1>2. TypeOK
  <2>1. <<>> \in Seq(Word) /\ <<>> \in Seq(SUBSET Facts)
    OBVIOUS
  <2>2. QED
    BY <1>1, <2>1 DEF Init, TypeOK
<1>3. SettledBehindWatermark /\ HoldbackOfferable
  BY DEF Init, SettledBehindWatermark, HoldbackOfferable, Starts
<1>4. QED
  BY <1>2, <1>3 DEF IndInv

\* Word lists put end to end: the grouping does not matter.
LEMMA Associates ==
  ASSUME NEW a \in Seq(Word), NEW b \in Seq(Word), NEW c \in Seq(Word)
  PROVE  (a \o b) \o c = a \o (b \o c)
OBVIOUS

\* What finalize publishes is a word list that begins with what is confirmed.
LEMMA FinalizedWordsFacts ==
  ASSUME TypeOK
  PROVE  \E tail \in Seq(Word) : FinalizedWords = confirmedWords \o tail
<1>1. CASE holdbackSuperseded /\ hypothesisWords # <<>>
  BY <1>1 DEF FinalizedWords, TypeOK
<1>2. CASE ~(holdbackSuperseded /\ hypothesisWords # <<>>)
  <2> DEFINE suffix == DifferentSuffix(prevWords, hypothesisWords)
  <2>1. suffix \in Seq(Word)
    <3>1. CommonPrefixLength(prevWords, hypothesisWords) \in 0..Len(hypothesisWords)
      BY CommonPrefixFacts DEF TypeOK
    <3>2. QED
      BY <3>1, SliceType DEF DifferentSuffix, TypeOK
  <2>2. FinalizedWords = (confirmedWords \o lastAgreedWords) \o suffix
    BY <1>2 DEF FinalizedWords
  <2> HIDE DEF suffix
  <2>3. lastAgreedWords \o suffix \in Seq(Word)
    BY <2>1 DEF TypeOK
  <2>4. (confirmedWords \o lastAgreedWords) \o suffix
          = confirmedWords \o (lastAgreedWords \o suffix)
    <3>1. confirmedWords \in Seq(Word) /\ lastAgreedWords \in Seq(Word)
      BY DEF TypeOK
    <3>2. QED
      BY <2>1, <3>1, Associates, Zenon
  <2>5. QED
    BY <2>2, <2>3, <2>4
<1>3. QED
  BY <1>1, <1>2

LEMMA NextInd == IndInv /\ [Next]_vars => IndInv'
<1> SUFFICES ASSUME IndInv, [Next]_vars PROVE IndInv'
  OBVIOUS
<1> USE DEF IndInv
<1>1. ASSUME NEW r \in Results, IngestWordless(r) PROVE IndInv'
  <2>1. r.facts \subseteq Facts
    BY ResultsAssumption DEF Result
  <2>2. TypeOK'
    BY <1>1, <2>1 DEF IngestWordless, Observe, TypeOK
  <2>3. SettledBehindWatermark' /\ HoldbackOfferable'
    BY <1>1 DEF IngestWordless, SettledBehindWatermark, HoldbackOfferable, Starts
  <2>4. QED
    BY <2>2, <2>3
<1>2. ASSUME NEW r \in Results, IngestFirst(r) PROVE IndInv'
  <2>1. r.facts \subseteq Facts /\ r.words \in Seq(Word)
    BY ResultsAssumption DEF Result
  <2>2. hypothesisWords' \in Seq(Word)
    BY <1>2, <2>1, FilterFacts DEF IngestFirst, TypeOK, Instant
  <2>3. TypeOK'
    <3>1. /\ holdbackSuperseded' = FALSE /\ outcome' = "AwaitingAgreement"
          /\ prevResult' = r.words /\ results' = Append(results, r.facts)
          /\ ingestedFacts' = ingestedFacts \cup r.facts
          /\ UNCHANGED <<lastAgreedSeconds, prevWords, lastAgreedWords,
                         confirmedWords, finalized, transcript>>
      BY <1>2 DEF IngestFirst, Observe
    <3>2. results' \in Seq(SUBSET Facts) /\ ingestedFacts' \subseteq Facts
      BY <2>1, <3>1 DEF TypeOK
    <3>3. QED
      BY <2>1, <2>2, <3>1, <3>2 DEF TypeOK
  <2>4. SettledBehindWatermark' /\ HoldbackOfferable'
    BY <1>2 DEF IngestFirst, SettledBehindWatermark, HoldbackOfferable, Starts
  <2>5. QED
    BY <2>3, <2>4
<1>3. ASSUME NEW r \in Results, IngestDisagreeing(r) PROVE IndInv'
  <2>1. r.facts \subseteq Facts /\ r.words \in Seq(Word)
    BY ResultsAssumption DEF Result
  <2>2. hypothesisWords' \in Seq(Word) /\ prevWords' \in Seq(Word)
    BY <1>3, <2>1, FilterFacts DEF IngestDisagreeing, Compare, TypeOK, Instant
  <2>3. TypeOK'
    BY <1>3, <2>1, <2>2 DEF IngestDisagreeing, Compare, Observe, TypeOK
  <2>4. SettledBehindWatermark' /\ HoldbackOfferable'
    BY <1>3
    DEF IngestDisagreeing, SettledBehindWatermark, HoldbackOfferable, Starts
  <2>5. QED
    BY <2>3, <2>4
<1>4. ASSUME NEW r \in Results, IngestAgreeing(r) PROVE IndInv'
  <2>1. r.facts \subseteq Facts
    BY ResultsAssumption DEF Result
  <2>2. /\ hypothesisWords' \in Seq(Word) /\ prevWords' \in Seq(Word)
        /\ prevResult' \in Seq(Word) /\ confirmedWords' \in Seq(Word)
        /\ lastAgreedWords' \in Seq(Word) /\ lastAgreedSeconds' \in Instant
        /\ SettledBehindWatermark' /\ HoldbackOfferable'
    BY <1>4, AdvanceFacts
  <2>3. outcome' \in {"Stationary", "Progressed"} /\ holdbackSuperseded' = FALSE
        /\ results' = Append(results, r.facts)
        /\ ingestedFacts' = ingestedFacts \cup r.facts
        /\ finalized' = finalized /\ transcript' = transcript
    BY <1>4 DEF IngestAgreeing, Compare, Observe
  <2>4. TypeOK'
    <3>1. results' \in Seq(SUBSET Facts) /\ ingestedFacts' \subseteq Facts
      BY <2>1, <2>3 DEF TypeOK
    <3>2. QED
      BY <2>2, <2>3, <3>1 DEF TypeOK
  <2>5. QED
    BY <2>2, <2>4
<1>5. ASSUME Finalize PROVE IndInv'
  <2>1. transcript' \in Seq(Word)
    <3>1. PICK tail \in Seq(Word) : FinalizedWords = confirmedWords \o tail
      BY FinalizedWordsFacts
    <3>2. QED
      BY <1>5, <3>1 DEF Finalize, TypeOK
  <2>2. ingestedFacts' \subseteq Facts
    <3>1. \A i \in DOMAIN results : results[i] \in SUBSET Facts
      BY DEF TypeOK
    <3>2. QED
      BY <1>5, <3>1 DEF Finalize, TypeOK
  <2>3. TypeOK'
    BY <1>5, <2>1, <2>2 DEF Finalize, TypeOK
  <2>4. SettledBehindWatermark' /\ HoldbackOfferable'
    BY <1>5 DEF Finalize, SettledBehindWatermark, HoldbackOfferable, Starts
  <2>5. QED
    BY <2>3, <2>4
<1>6. CASE UNCHANGED vars
  BY <1>6 DEF vars, TypeOK, SettledBehindWatermark, HoldbackOfferable, Starts
<1>7. QED
  BY <1>1, <1>2, <1>3, <1>4, <1>5, <1>6 DEF Next, Ingest

\* Rule W's first postcondition for every decode and every setting: whatever
\* `ingest` was handed, no confirmed word can be offered again, every held-back
\* word can, and the state is well typed.
THEOREM SettledIsBehindTheWatermark ==
  Spec => [](TypeOK /\ SettledBehindWatermark /\ HoldbackOfferable)
<1>1. Spec => []IndInv
  BY InitInd, NextInd, PTL DEF Spec
<1>2. IndInv => TypeOK /\ SettledBehindWatermark /\ HoldbackOfferable
  BY DEF IndInv
<1>3. QED
  BY <1>1, <1>2, PTL

\* The engine keeps the promise of SettledTranscript: what it confirms is only
\* ever appended, from the watermark on, the watermark passes it and never
\* retreats, and finalize only adds a tail.
THEOREM EngineKeepsThePromise == Spec => PromiseKept
<1>1. Init => Settled!STInit
  BY DEF Init, Settled!STInit
<1>2. IndInv /\ [Next]_vars => [Settled!STNext]_(Settled!stVars)
  <2> SUFFICES ASSUME IndInv, [Next]_vars
               PROVE  Settled!STNext \/ UNCHANGED Settled!stVars
    OBVIOUS
  <2> USE DEF IndInv
  <2>1. ASSUME NEW r \in Results,
               IngestWordless(r) \/ IngestFirst(r) \/ IngestDisagreeing(r)
        PROVE  UNCHANGED Settled!stVars
    BY <2>1 DEF IngestWordless, IngestFirst, IngestDisagreeing, Compare, Observe,
                Settled!stVars
  <2>2. ASSUME NEW r \in Results, IngestAgreeing(r) PROVE Settled!Settle
    <3>1. finalized = FALSE /\ finalized' = finalized
      BY <2>2 DEF IngestAgreeing, Compare, Observe
    <3> DEFINE hypothesis == hypothesisWords'
               agreed == CommonPrefixLength(prevWords', hypothesis)
               split == SplitAtAStrictBoundary(hypothesis, agreed, confirmedWords)
               added == UpTo(hypothesis, split)
    <3>2. /\ hypothesis \in Seq(Word) /\ agreed \in 1..Len(hypothesis)
          /\ split \in 0..agreed
          /\ \A s \in Starts(hypothesis) : s >= lastAgreedSeconds
          /\ confirmedWords' = confirmedWords \o added
          /\ confirmedWords' \in Seq(Word)
          /\ lastAgreedSeconds' >= lastAgreedSeconds
          /\ \A s \in Starts(confirmedWords') : s < lastAgreedSeconds'
      BY <2>2, AdvanceFacts DEF SettledBehindWatermark
    <3> HIDE DEF hypothesis, agreed, split
    <3>3. /\ split \in 0..Len(hypothesis)
          /\ added \in Seq(Word) /\ Len(added) = split
          /\ Starts(added) \subseteq Starts(hypothesis)
      BY <3>2, SliceType, StartsOfSlices
    <3>4. confirmedWords \in Seq(Word)
      BY DEF TypeOK
    <3> HIDE DEF added
    <3>5. /\ Len(confirmedWords') = Len(confirmedWords) + Len(added)
          /\ \A i \in 1..Len(confirmedWords) : confirmedWords'[i] = confirmedWords[i]
          /\ \A i \in (Len(confirmedWords) + 1)..Len(confirmedWords') :
               /\ i - Len(confirmedWords) \in DOMAIN added
               /\ confirmedWords'[i] = added[i - Len(confirmedWords)]
      <4>1. confirmedWords' = confirmedWords \o added /\ added \in Seq(Word)
        BY <3>2, <3>3
      <4>2. /\ Len(confirmedWords \o added) = Len(confirmedWords) + Len(added)
            /\ \A i \in 1..Len(confirmedWords) :
                 (confirmedWords \o added)[i] = confirmedWords[i]
            /\ \A i \in (Len(confirmedWords) + 1)..(Len(confirmedWords) + Len(added)) :
                 /\ i - Len(confirmedWords) \in DOMAIN added
                 /\ (confirmedWords \o added)[i] = added[i - Len(confirmedWords)]
        BY <3>4, <4>1, ConcatenationFacts
      <4>3. QED
        BY <4>1, <4>2, Zenon
    <3>6. \A i \in DOMAIN added : added[i].start >= lastAgreedSeconds
      BY <3>2, <3>3 DEF Starts
    <3>7. \A i \in 1..Len(confirmedWords') :
            confirmedWords'[i].start < lastAgreedSeconds'
      <4>1. TAKE i \in 1..Len(confirmedWords')
      <4>2. i \in DOMAIN confirmedWords'
        BY <3>2
      <4>3. confirmedWords'[i].start \in Starts(confirmedWords')
        BY <4>2 DEF Starts
      <4>4. QED
        BY <3>2, <4>3
    <3>8. Settled!Extends(confirmedWords, confirmedWords')
      BY <3>3, <3>4, <3>5 DEF Settled!Extends
    <3>9. QED
      BY <3>1, <3>2, <3>5, <3>6, <3>7, <3>8 DEF Settled!Settle
  <2>3. ASSUME Finalize PROVE Settled!Close
    <3>1. PICK tail \in Seq(Word) : FinalizedWords = confirmedWords \o tail
      BY FinalizedWordsFacts
    <3>2. confirmedWords \in Seq(Word)
      BY DEF TypeOK
    <3>3. /\ finalized = FALSE /\ finalized' = TRUE
          /\ transcript' = confirmedWords \o tail
          /\ lastAgreedSeconds' = lastAgreedSeconds
      BY <2>3, <3>1 DEF Finalize
    <3>4. Settled!Extends(confirmedWords, confirmedWords \o tail)
      BY <3>1, <3>2 DEF Settled!Extends
    <3>5. QED
      BY <3>3, <3>4 DEF Settled!Close
  <2>4. CASE UNCHANGED vars
    BY <2>4 DEF vars, Settled!stVars
  <2>5. QED
    BY <2>1, <2>2, <2>3, <2>4 DEF Next, Ingest, Settled!STNext
<1>3. Spec => []IndInv
  BY InitInd, NextInd, PTL DEF Spec
<1>4. QED
  BY <1>1, <1>2, <1>3, PTL DEF Spec, PromiseKept, Settled!STSpec

\* A step of the engine, seen from the outcome: an advance is an agreement.
LEMMA AdvancesAgree ==
  ASSUME [Next]_vars, Advances, TypeOK
  PROVE  \E r \in Results : IngestAgreeing(r)
<1>1. results \in Seq(SUBSET Facts)
  BY DEF TypeOK
<1>2. results' # results
  BY <1>1 DEF Advances
<1>3. PICK r \in Results : Ingest(r)
  BY <1>2 DEF Next, Finalize, vars
<1>4. ~IngestWordless(r) /\ ~IngestFirst(r) /\ ~IngestDisagreeing(r)
  BY DEF Advances, IngestWordless, IngestFirst, IngestDisagreeing
<1>5. QED
  BY <1>3, <1>4 DEF Ingest

\* The back-off always finds a boundary within the prefill budget: an advance
\* leaves no holdback only when the agreed prefix exceeds the budget.
THEOREM HoldbackEmptiesOnlyOverTheBudget == Spec => HoldbackEmptiesOnlyOverBudget
<1>1. ASSUME IndInv, [Next]_vars, Advances, lastAgreedWords' = <<>>
      PROVE  PrefillTokens(AgreedPrefix) > PrefillBudget
  <2> USE DEF IndInv
  <2>1. PICK r \in Results : IngestAgreeing(r)
    BY <1>1, AdvancesAgree
  <2> DEFINE hypothesis == hypothesisWords'
             agreed == CommonPrefixLength(prevWords', hypothesis)
             split == SplitAtAStrictBoundary(hypothesis, agreed, confirmedWords)
  <2>2. /\ hypothesis \in Seq(Word)
        /\ agreed \in 1..Len(hypothesis) /\ split \in 0..agreed
        /\ \A s \in Starts(hypothesis) : s >= lastAgreedSeconds
        /\ confirmedWords' = confirmedWords \o UpTo(hypothesis, split)
        /\ Len(lastAgreedWords') = agreed - split
    BY <1>1, <2>1, AdvanceFacts
  <2> HIDE DEF hypothesis, agreed
  <2>3. confirmedWords \in Seq(Word) /\ lastAgreedSeconds \in Nat
    BY <1>1 DEF TypeOK, Instant
  <2>4. \A s \in Starts(confirmedWords), u \in Starts(hypothesis) : s < u
    <3>1. Starts(confirmedWords) \in SUBSET Nat /\ Starts(hypothesis) \in SUBSET Nat
      BY <2>2, <2>3, StartsFacts
    <3>2. QED
      BY <1>1, <2>2, <2>3, <3>1 DEF SettledBehindWatermark
  <2>5. split = agreed
    <3> HIDE DEF split
    <3>1. QED
      BY <1>1, <2>2
  <2>6. PrefillTokens(UpTo(hypothesis, agreed)) > PrefillBudget
    <3>1. SUFFICES ASSUME ~(PrefillTokens(UpTo(hypothesis, agreed)) > PrefillBudget)
                   PROVE  split < agreed
      BY <2>2, <2>5
    <3>2. QED
      BY <2>2, <2>3, <2>4, <3>1, SplitLeavesAHoldback
  <2>7. AgreedPrefix = UpTo(hypothesis, agreed)
    <3>1. UpTo(hypothesis, split) \in Seq(Word) /\ Len(UpTo(hypothesis, split)) = split
      <4>1. split \in 0..Len(hypothesis)
        BY <2>2
      <4> HIDE DEF split
      <4>2. QED
        BY <2>2, <4>1, SliceType
    <3> HIDE DEF split
    <3>2. Confirms = split
      <4>1. Len(confirmedWords') = Len(confirmedWords) + split
        BY <2>2, <2>3, <3>1, ConcatenationFacts
      <4>2. split \in Nat /\ Len(confirmedWords) \in Nat
        BY <2>2, <2>3
      <4>3. QED
        BY <4>1, <4>2 DEF Confirms
    <3>3. Confirms + Len(lastAgreedWords') = agreed
      BY <2>2, <3>2
    <3>4. QED
      BY <3>3 DEF AgreedPrefix, hypothesis
  <2>8. QED
    BY <2>6, <2>7
<1>2. Spec => []IndInv
  BY InitInd, NextInd, PTL DEF Spec
<1>3. IndInv /\ [Next]_vars =>
        [Advances /\ lastAgreedWords' = <<>>
           => PrefillTokens(AgreedPrefix) > PrefillBudget]_vars
  BY <1>1
<1>4. QED
  BY <1>2, <1>3, PTL DEF Spec, HoldbackEmptiesOnlyOverBudget

-----------------------------------------------------------------------------
(* What an advance does: it confirms what the prefill cannot carry, moves  *)
(* the watermark past what it confirms, strands a word only when every     *)
(* split would, and leaves a transcript that ends with the newest          *)
(* hypothesis.                                                             *)

\* Where an advance may cut the agreed prefix.
LegalAt(hypothesis, confirmed, k) ==
  ASparingWatermarkExists(Starts(confirmed) \cup Starts(UpTo(hypothesis, k)),
                          Starts(From(hypothesis, k)))

\* Marks are finitely many, and none when there is no word.
LEMMA MarksAreCounted ==
  ASSUME NEW words \in Seq(Word)
  PROVE  /\ IsFiniteSet(Marks(words)) /\ PrefillTokens(words) \in Nat
         /\ words = <<>> => PrefillTokens(words) = 0
<1> DEFINE own == [i \in 1..Len(words) |-> {i} \X (1..words[i].tokens)]
           each == {own[i] : i \in 1..Len(words)}
<1>1. DOMAIN words = 1..Len(words) /\ \A i \in 1..Len(words) : words[i].tokens \in Nat
  <2>1. DOMAIN words = 1..Len(words) /\ \A i \in 1..Len(words) : words[i] \in Word
    OBVIOUS
  <2>2. \A w \in Word : w.tokens \in Nat
    BY DEF Word
  <2>3. QED
    BY <2>1, <2>2
<1>2. \A i \in 1..Len(words) : IsFiniteSet(own[i])
  <2>1. ASSUME NEW i \in 1..Len(words) PROVE IsFiniteSet({i} \X (1..words[i].tokens))
    <3>1. IsFiniteSet(1..words[i].tokens)
      BY <1>1, FS_Interval
    <3>2. IsFiniteSet({i})
      BY FS_Singleton
    <3>3. QED
      BY <3>1, <3>2, FS_Product
  <2>2. QED
    BY <2>1
<1>3. IsFiniteSet(each)
  <2>1. own \in Surjection(1..Len(words), each)
    BY DEF Surjection
  <2>2. IsFiniteSet(1..Len(words))
    BY FS_Interval
  <2> HIDE DEF own, each
  <2>3. QED
    BY <2>1, <2>2, FS_Surjection
<1>4. Marks(words) = UNION each
  BY <1>1 DEF Marks
<1>5. \A T \in each : IsFiniteSet(T)
  BY <1>2
<1> HIDE DEF each
<1>6. IsFiniteSet(Marks(words)) /\ PrefillTokens(words) \in Nat
  BY <1>3, <1>4, <1>5, FS_UNION, FS_CardinalityType DEF PrefillTokens
<1>7. ASSUME words = <<>> PROVE PrefillTokens(words) = 0
  <2>1. Marks(words) = {}
    BY <1>7 DEF Marks
  <2>2. QED
    BY <2>1, FS_EmptySet DEF PrefillTokens
<1>8. QED
  BY <1>6, <1>7

\* A shorter holdback has no more tokens.
LEMMA ShorterFits ==
  ASSUME NEW words \in Seq(Word), NEW a \in 0..Len(words), NEW b \in a..Len(words)
  PROVE  PrefillTokens(From(words, b)) <= PrefillTokens(From(words, a))
<1>1. a \in Nat /\ b \in Nat /\ a <= b /\ Len(words) \in Nat /\ b \in 0..Len(words)
  OBVIOUS
<1>2. \A c \in 0..Len(words) :
        /\ From(words, c) \in Seq(Word) /\ Len(From(words, c)) = Len(words) - c
        /\ \A i \in 1..(Len(words) - c) : From(words, c)[i] = words[c + i]
  BY SliceType DEF From
<1> DEFINE late == From(words, b)
           early == From(words, a)
           by == [m \in Marks(late) |-> <<m[1] + (b - a), m[2]>>]
<1>3. /\ late \in Seq(Word) /\ DOMAIN late = 1..(Len(words) - b)
      /\ early \in Seq(Word) /\ DOMAIN early = 1..(Len(words) - a)
      /\ \A i \in 1..(Len(words) - b) : i + (b - a) \in 1..(Len(words) - a)
                                        /\ late[i] = early[i + (b - a)]
  <2>1. /\ late \in Seq(Word) /\ Len(late) = Len(words) - b
        /\ early \in Seq(Word) /\ Len(early) = Len(words) - a
        /\ \A i \in 1..(Len(words) - b) : late[i] = words[b + i]
        /\ \A i \in 1..(Len(words) - a) : early[i] = words[a + i]
    BY <1>1, <1>2
  <2> HIDE DEF late, early
  <2>2. \A i \in 1..(Len(words) - b) : i + (b - a) \in 1..(Len(words) - a) /\ a + (i + (b - a)) = b + i
    BY <1>1
  <2>3. \A i \in 1..(Len(words) - b) : late[i] = early[i + (b - a)]
    BY <2>1, <2>2
  <2>4. QED
    BY <2>1, <2>2, <2>3
<1> HIDE DEF late, early
<1>4. \A m \in Marks(late) : /\ m[1] \in 1..(Len(words) - b) /\ m[2] \in 1..late[m[1]].tokens
                             /\ m = <<m[1], m[2]>>
  BY <1>3 DEF Marks
<1>5. by \in [Marks(late) -> Marks(early)]
  <2>1. ASSUME NEW m \in Marks(late) PROVE <<m[1] + (b - a), m[2]>> \in Marks(early)
    <3>1. PICK i \in 1..(Len(words) - b), v \in Nat : m[1] = i /\ m[2] = v /\ v \in 1..late[i].tokens
      BY <1>4
    <3>2. i + (b - a) \in DOMAIN early /\ v \in 1..early[i + (b - a)].tokens
      <4>1. i + (b - a) \in 1..(Len(words) - a) /\ late[i] = early[i + (b - a)]
        BY <1>3
      <4>2. late[i].tokens = early[i + (b - a)].tokens
        BY <4>1
      <4>3. v \in 1..early[i + (b - a)].tokens
        BY <3>1, <4>2, Zenon
      <4>4. QED
        BY <1>3, <4>1, <4>3
    <3>3. <<i + (b - a), v>> \in {i + (b - a)} \X (1..early[i + (b - a)].tokens)
      BY <3>2
    <3>4. <<i + (b - a), v>> \in Marks(early)
      BY <3>2, <3>3 DEF Marks
    <3>5. QED
      BY <3>1, <3>4
  <2>2. QED
    BY <2>1
<1>6. \A m, n \in Marks(late) : by[m] = by[n] => m = n
  <2>1. ASSUME NEW m \in Marks(late), NEW n \in Marks(late), by[m] = by[n] PROVE m = n
    <3>1. m[1] + (b - a) = n[1] + (b - a) /\ m[2] = n[2]
      BY <2>1
    <3>2. m[1] = n[1]
      BY <1>1, <1>4, <3>1
    <3>3. QED
      BY <1>4, <3>1, <3>2
  <2>2. QED
    BY <2>1
<1>7. by \in Injection(Marks(late), Marks(early))
  <2> HIDE DEF by
  <2>1. QED
    BY <1>5, <1>6 DEF Injection, IsInjective
<1>8. IsFiniteSet(Marks(early))
  BY <1>3, MarksAreCounted
<1> HIDE DEF by
<1>9. Cardinality(Marks(late)) <= Cardinality(Marks(early))
  BY <1>7, <1>8, FS_Injection
<1>10. QED
  BY <1>9 DEF PrefillTokens, late, early
\* The budget's floor: no cut below it fits, and it is zero only if the whole
\* prefix does.
LEMMA FloorFacts ==
  ASSUME NEW common \in Seq(Word)
  PROVE  /\ BudgetedSplit(common) \in 0..Len(common)
         /\ BudgetedSplit(common) < Len(common)
              => ~(PrefillTokens(From(common, BudgetedSplit(common))) > PrefillBudget)
         /\ \A k \in 0..Len(common) :
              ~(PrefillTokens(From(common, k)) > PrefillBudget)
                => k >= BudgetedSplit(common)
         /\ Len(common) > 0 /\ PrefillTokens(common) > PrefillBudget
              => BudgetedSplit(common) > 0
<1> DEFINE cuts == {k \in 0..Len(common) :
                      ~(PrefillTokens(From(common, k)) > PrefillBudget
                          /\ k < Len(common))}
           floor == BudgetedSplit(common)
<1>1. Len(common) \in Nat
  OBVIOUS
<1>2. cuts \in SUBSET Nat /\ cuts \subseteq 0..Len(common) /\ Len(common) \in cuts
  BY <1>1
<1>3. floor = Min(cuts)
  BY DEF BudgetedSplit
<1>4. floor \in cuts /\ \A k \in cuts : floor <= k
  <2> HIDE DEF cuts, floor
  <2>1. QED
    BY <1>2, <1>3, MinOfNaturals
<1> HIDE DEF floor
<1>5. floor < Len(common) => ~(PrefillTokens(From(common, floor)) > PrefillBudget)
  BY <1>4
<1>6. \A k \in 0..Len(common) :
        ~(PrefillTokens(From(common, k)) > PrefillBudget) => k >= floor
  <2>1. TAKE k \in 0..Len(common)
  <2>2. HAVE ~(PrefillTokens(From(common, k)) > PrefillBudget)
  <2>3. k \in cuts
    BY <2>2
  <2> HIDE DEF cuts
  <2>4. QED
    BY <1>2, <1>4, <2>3
<1>7. ASSUME Len(common) > 0, PrefillTokens(common) > PrefillBudget
      PROVE  floor > 0
  <2>1. From(common, 0) = common
    BY DEF From
  <2>2. 0 \notin cuts
    BY <1>7, <2>1
  <2>3. QED
    BY <1>2, <1>4, <2>2
<1>8. QED
  BY <1>2, <1>4, <1>6, <1>7, <1>5 DEF floor

\* An advance cuts at or past the budget's floor; short of the end of the
\* agreed prefix only at a legal cut, and there only when none is legal before.
LEMMA SplitCases ==
  ASSUME NEW hypothesis \in Seq(Word), NEW confirmed \in Seq(Word),
         NEW agreed \in 0..Len(hypothesis)
  PROVE  LET split == SplitAtAStrictBoundary(hypothesis, agreed, confirmed)
             floor == BudgetedSplit(UpTo(hypothesis, agreed))
         IN  /\ split \in floor..agreed
             /\ split < agreed => LegalAt(hypothesis, confirmed, split)
             /\ split = agreed => \A k \in floor..(agreed - 1) :
                                    ~LegalAt(hypothesis, confirmed, k)
<1> DEFINE Legal(k) == LegalAt(hypothesis, confirmed, k)
           floor == BudgetedSplit(UpTo(hypothesis, agreed))
           widened == Max({agreed - AgreementCountNeeded, floor})
           forward == {k \in widened..(agreed - 1) : Legal(k)}
           backward == {k \in floor..(widened - 1) : Legal(k)}
           split == SplitAtAStrictBoundary(hypothesis, agreed, confirmed)
<1>1. agreed \in Nat /\ floor \in 0..agreed
  <2>1. UpTo(hypothesis, agreed) \in Seq(Word) /\ Len(UpTo(hypothesis, agreed)) = agreed
    BY SliceType
  <2>2. QED
    BY <2>1, FloorFacts
<1>2. split = IF forward # {} THEN Min(forward)
              ELSE IF backward # {} THEN Max(backward) ELSE agreed
  BY DEF SplitAtAStrictBoundary, LegalAt
<1> HIDE DEF Legal, floor, split
<1>3. widened \in Int /\ widened >= floor /\ widened <= agreed
  <2> DEFINE both == {agreed - AgreementCountNeeded, floor}
  <2>1. AgreementCountNeeded \in Nat
    BY CountAssumption DEF AgreementCountNeeded
  <2>2. both \in SUBSET Int /\ both # {} /\ agreed \in Int
        /\ \A x \in both : x <= agreed
    BY <1>1, <2>1
  <2>3. Max(both) \in both /\ \A y \in both : Max(both) >= y
    <3> HIDE DEF both
    <3>1. QED
      BY <2>2, MaxOfBounded
  <2>4. floor \in both /\ both \subseteq Int
    BY <2>2
  <2>5. widened = Max(both)
    OBVIOUS
  <2> HIDE DEF both, widened
  <2>6. QED
    BY <2>2, <2>3, <2>4, <2>5
<1> HIDE DEF widened
<1>4. CASE forward # {}
  <2>1. forward \in SUBSET Nat
    BY <1>1, <1>3
  <2>2. Min(forward) \in forward
    <3> HIDE DEF forward
    <3>1. QED
      BY <1>4, <2>1, MinOfNaturals
  <2>3. split \in forward
    BY <1>2, <1>4, <2>2
  <2>4. split \in floor..agreed /\ split # agreed /\ Legal(split)
    BY <1>1, <1>3, <2>3
  <2>5. QED
    BY <2>4 DEF split, floor, Legal
<1>5. CASE forward = {} /\ backward # {}
  <2>1. backward \in SUBSET Int /\ \A k \in backward : k <= widened
    BY <1>1, <1>3
  <2>2. Max(backward) \in backward
    <3> HIDE DEF backward
    <3>1. QED
      BY <1>3, <1>5, <2>1, MaxOfBounded
  <2>3. split \in backward
    BY <1>2, <1>5, <2>2
  <2>4. split \in floor..agreed /\ split # agreed /\ Legal(split)
    BY <1>1, <1>3, <2>3
  <2>5. QED
    BY <2>4 DEF split, floor, Legal
<1>6. CASE forward = {} /\ backward = {}
  <2>1. split = agreed
    BY <1>2, <1>6
  <2>2. \A k \in floor..(agreed - 1) : k \in widened..(agreed - 1) \/ k \in floor..(widened - 1)
    BY <1>1, <1>3
  <2>3. \A k \in floor..(agreed - 1) : ~Legal(k)
    BY <1>6, <2>2
  <2>4. split \in floor..agreed /\ ~(split < agreed)
    BY <1>1, <2>1
  <2>5. QED
    BY <2>3, <2>4 DEF split, floor, Legal
<1>7. QED
  BY <1>4, <1>5, <1>6

\* The anchor of an advance is an instant.
LEMMA AnchorFacts ==
  ASSUME NEW last \in Word, NEW high \in Nat
  PROVE  EmptyHoldbackAnchor(last, high) \in Nat
<1> DEFINE past == PastTheSettledInstant(high)
           both == {last.end, past}
<1>1. past \in Nat
  BY PastTheSettledInstantFacts DEF Instant
<1>2. last.end \in Nat
  BY DEF Word, Instant
<1> HIDE DEF past
<1>3. /\ both \in SUBSET Int /\ both # {} /\ last.end + past \in Int
      /\ \A x \in both : x <= last.end + past
  BY <1>1, <1>2
<1>4. Max(both) \in both
  <2> HIDE DEF both
  <2>1. QED
    BY <1>3, MaxOfBounded
<1>5. EmptyHoldbackAnchor(last, high) = Max(both)
  BY DEF EmptyHoldbackAnchor, past
<1>6. QED
  BY <1>1, <1>2, <1>4, <1>5

\* A legal cut strands nothing: its watermark spares every unconfirmed word.
LEMMA LegalCutSparesAll ==
  ASSUME NEW hypothesis \in Seq(Word), NEW confirmed \in Seq(Word),
         NEW agreed \in 1..Len(hypothesis), NEW split \in 0..agreed,
         LegalAt(hypothesis, confirmed, split)
  PROVE  \A u \in Starts(From(hypothesis, split)) :
           u >= Watermark(hypothesis, agreed, split,
                          confirmed \o UpTo(hypothesis, split))
<1> DEFINE settled == UpTo(hypothesis, split)
           after == confirmed \o settled
           unsettled == From(hypothesis, split)
           high == IF after = <<>> THEN -1 ELSE Max(Starts(after))
           anchor == IF split < agreed
                       THEN hypothesis[split + 1].start
                       ELSE EmptyHoldbackAnchor(hypothesis[agreed], high)
           C == {anchor} \cup {u \in Starts(unsettled) : u > high}
           mark == Watermark(hypothesis, agreed, split, after)
<1>1. /\ split \in 0..Len(hypothesis) /\ split \in Nat /\ agreed \in Nat
      /\ Len(hypothesis) \in Nat
  OBVIOUS
<1>2. settled \in Seq(Word) /\ unsettled \in Seq(Word) /\ Len(settled) = split
  BY <1>1, SliceType
<1>3. after \in Seq(Word) /\ Starts(after) = Starts(confirmed) \cup Starts(settled)
      /\ (after = <<>> => split = 0)
  <2>1. after \in Seq(Word) /\ Len(after) = Len(confirmed) + Len(settled)
    BY <1>2, ConcatenationFacts
  <2>2. Starts(after) = Starts(confirmed) \cup Starts(settled)
    BY <1>2, StartsOfConcatenation
  <2> HIDE DEF after, settled
  <2>3. after = <<>> => split = 0
    BY <1>1, <1>2, <2>1
  <2>4. QED
    BY <2>1, <2>2, <2>3
<1>4. Starts(unsettled) \in SUBSET Nat /\ Starts(after) \in SUBSET Nat
  BY <1>2, <1>3, StartsFacts
<1>5. \A s \in Starts(after), u \in Starts(unsettled) : s < u
  BY <1>3 DEF LegalAt, ASparingWatermarkExists
<1> HIDE DEF settled, after, unsettled
<1>6. after # <<>> => high \in Starts(after)
  BY <1>3, StartsFacts
<1>7. \A u \in Starts(unsettled) : u > high
  <2>1. CASE after = <<>>
    BY <1>4, <2>1
  <2>2. CASE after # <<>>
    <3>1. high \in Starts(after)
      BY <1>6, <2>2
    <3> HIDE DEF high
    <3>2. QED
      BY <1>4, <1>5, <3>1
  <2>3. QED
    BY <2>1, <2>2
<1>8. anchor \in Nat
  <2>1. CASE split < agreed
    <3>1. split + 1 \in 1..Len(hypothesis)
      BY <1>1, <2>1
    <3>2. hypothesis[split + 1] \in Word
      BY <3>1
    <3>3. QED
      BY <2>1, <3>2 DEF Word, Instant
  <2>2. CASE ~(split < agreed)
    <3>1. after # <<>>
      BY <1>1, <1>3, <2>2
    <3>2. high \in Nat
      BY <1>4, <1>6, <3>1
    <3> HIDE DEF high
    <3>3. hypothesis[agreed] \in Word
      BY <1>1
    <3>4. QED
      BY <2>2, <3>2, <3>3, AnchorFacts
  <2>3. QED
    BY <2>1, <2>2
<1>9. mark = Min(C)
  BY DEF Watermark, SparingWatermark, unsettled
<1> HIDE DEF anchor, high, mark
<1>10. C \in SUBSET Nat /\ C # {} /\ Starts(unsettled) \subseteq C
  BY <1>4, <1>7, <1>8
<1>11. mark \in Nat /\ \A c \in C : mark <= c
  <2> HIDE DEF C
  <2>1. QED
    BY <1>9, <1>10, MinOfNaturals
<1>12. QED
  BY <1>4, <1>10, <1>11 DEF mark, after, settled, unsettled

\* Two lists that are neighbouring slices of a third join to one.
LEMMA NeighboursJoin ==
  ASSUME NEW words \in Seq(Word), NEW a \in Seq(Word), NEW b \in Seq(Word),
         NEW from \in Nat, NEW to \in Nat, to = from + Len(a),
         \A k \in 1..Len(a) : a[k] = words[k + from],
         \A k \in 1..Len(b) : b[k] = words[k + to]
  PROVE  /\ a \o b \in Seq(Word)
         /\ Len(a \o b) = Len(a) + Len(b)
         /\ \A k \in 1..Len(a \o b) : (a \o b)[k] = words[k + from]
<1> DEFINE whole == a \o b
<1>1. /\ whole \in Seq(Word) /\ Len(whole) = Len(a) + Len(b)
      /\ \A k \in 1..Len(a) : whole[k] = a[k]
      /\ \A k \in (Len(a) + 1)..(Len(a) + Len(b)) :
           /\ k - Len(a) \in DOMAIN b
           /\ whole[k] = b[k - Len(a)]
  BY ConcatenationFacts
<1> HIDE DEF whole
<1>2. ASSUME NEW k \in 1..Len(whole) PROVE whole[k] = words[k + from]
  <2>1. CASE k <= Len(a)
    BY <1>1, <2>1
  <2>2. CASE k > Len(a)
    <3>1. k - Len(a) \in 1..Len(b) /\ whole[k] = b[k - Len(a)]
      BY <1>1, <2>2
    <3>2. (k - Len(a)) + to = k + from
      BY <1>1
    <3>3. QED
      BY <3>1, <3>2
  <2>3. QED
    BY <2>1, <2>2
<1>3. QED
  BY <1>1, <1>2 DEF whole

\* The slices of a list, put together again, and the tail of a concatenation.
LEMMA SlicesRejoin ==
  ASSUME NEW words \in Seq(Word), NEW j \in 0..Len(words), NEW i \in 0..j
  PROVE  UpTo(words, i) \o (From(UpTo(words, j), i) \o From(words, j)) = words
<1> DEFINE common == UpTo(words, j)
           held == From(common, i)
           rest == From(words, j)
           lead == UpTo(words, i)
<1>1. /\ common \in Seq(Word) /\ Len(common) = j
      /\ \A k \in 1..j : common[k] = words[k]
      /\ rest \in Seq(Word) /\ Len(rest) = Len(words) - j
      /\ \A k \in 1..(Len(words) - j) : rest[k] = words[k + j]
  BY SliceType
<1>2. /\ lead \in Seq(Word) /\ Len(lead) = i
      /\ \A k \in 1..i : lead[k] = words[k]
  <2>1. i \in 0..Len(words)
    OBVIOUS
  <2>2. QED
    BY <2>1, SliceType
<1> HIDE DEF common, rest, lead
<1>3. /\ held \in Seq(Word) /\ Len(held) = j - i
      /\ \A k \in 1..(j - i) : held[k] = words[k + i]
  <2>1. i \in 0..Len(common)
    BY <1>1
  <2>2. /\ held \in Seq(Word) /\ Len(held) = j - i
        /\ \A k \in 1..(j - i) : held[k] = common[k + i]
    BY <1>1, <2>1, SliceType
  <2>3. \A k \in 1..(j - i) : k + i \in 1..j
    OBVIOUS
  <2>4. QED
    BY <1>1, <2>2, <2>3
<1> HIDE DEF held
<1> DEFINE whole == lead \o (held \o rest)
<1>4. /\ held \o rest \in Seq(Word) /\ Len(held \o rest) = Len(words) - i
      /\ \A k \in 1..(Len(words) - i) : (held \o rest)[k] = words[k + i]
  <2>1. /\ j = i + Len(held) /\ i \in Nat /\ j \in Nat
        /\ \A k \in 1..Len(held) : held[k] = words[k + i]
        /\ \A k \in 1..Len(rest) : rest[k] = words[k + j]
    BY <1>1, <1>3
  <2>2. /\ held \o rest \in Seq(Word)
        /\ Len(held \o rest) = Len(held) + Len(rest)
        /\ \A k \in 1..Len(held \o rest) : (held \o rest)[k] = words[k + i]
    <3>1. held \in Seq(Word) /\ rest \in Seq(Word) /\ words \in Seq(Word)
      BY <1>1, <1>3
    <3>2. QED
      BY <2>1, <3>1, NeighboursJoin
  <2>3. Len(held) + Len(rest) = Len(words) - i
    BY <1>1, <1>3
  <2>4. QED
    BY <2>2, <2>3
<1>5. whole \in Seq(Word) /\ Len(whole) = Len(words)
      /\ \A k \in 1..Len(words) : whole[k] = words[k]
  <2> DEFINE after == held \o rest
  <2>1. /\ after \in Seq(Word) /\ Len(after) = Len(words) - i
        /\ \A k \in 1..(Len(words) - i) : after[k] = words[k + i]
    BY <1>4
  <2> HIDE DEF after
  <2>2. /\ i = 0 + Len(lead) /\ 0 \in Nat /\ i \in Nat
        /\ \A k \in 1..Len(lead) : lead[k] = words[k + 0]
        /\ \A k \in 1..Len(after) : after[k] = words[k + i]
    BY <1>2, <2>1
  <2>3. /\ lead \o after \in Seq(Word)
        /\ Len(lead \o after) = Len(lead) + Len(after)
        /\ \A k \in 1..Len(lead \o after) : (lead \o after)[k] = words[k + 0]
    <3>1. lead \in Seq(Word) /\ after \in Seq(Word) /\ words \in Seq(Word)
      BY <1>2, <2>1
    <3>2. QED
      BY <2>2, <3>1, NeighboursJoin
  <2>4. Len(lead) + Len(after) = Len(words) /\ \A k \in 1..Len(words) : k + 0 = k
    BY <1>2, <2>1
  <2>5. QED
    BY <2>3, <2>4 DEF after
<1> HIDE DEF whole
<1>6. whole = words
  BY <1>5
<1>7. QED
  BY <1>6 DEF whole, lead, held, rest, common

LEMMA TailOfConcatenation ==
  ASSUME NEW a \in Seq(Word), NEW b \in Seq(Word)
  PROVE  /\ Len(a \o b) - Len(b) >= 0
         /\ From(a \o b, Len(a \o b) - Len(b)) = b
<1>1. /\ a \o b \in Seq(Word) /\ Len(a \o b) = Len(a) + Len(b)
      /\ \A k \in 1..Len(b) : (a \o b)[k + Len(a)] = b[k]
  OBVIOUS
<1> DEFINE whole == a \o b
           tail == From(whole, Len(a))
<1> HIDE DEF whole
<1>2. whole \in Seq(Word) /\ Len(a) \in 0..Len(whole) /\ Len(whole) = Len(a) + Len(b)
      /\ \A k \in 1..Len(b) : whole[k + Len(a)] = b[k]
  BY <1>1 DEF whole
<1>3. /\ tail \in Seq(Word) /\ Len(tail) = Len(b)
      /\ \A k \in 1..Len(b) : tail[k] = b[k]
  <2>1. /\ tail \in Seq(Word) /\ Len(tail) = Len(whole) - Len(a)
        /\ \A k \in 1..(Len(whole) - Len(a)) : tail[k] = whole[k + Len(a)]
    BY <1>2, SliceType
  <2>2. Len(whole) - Len(a) = Len(b)
    BY <1>2
  <2>3. QED
    BY <1>2, <2>1, <2>2
<1> HIDE DEF tail
<1>4. tail = b
  BY <1>3
<1>5. QED
  BY <1>2, <1>4 DEF tail, whole

-----------------------------------------------------------------------------
(* A step that advances. *)

\* How a step that advances is laid out, in the terms of its properties: the
\* cut is what it confirms, and what it confirms and holds back is what agreed.
LEMMA AdvanceLayout ==
  ASSUME IndInv, [Next]_vars, Advances
  PROVE  \E agreed \in 1..Len(hypothesisWords'), split \in 0..Len(hypothesisWords') :
           /\ hypothesisWords' \in Seq(Word)
           /\ split = SplitAtAStrictBoundary(hypothesisWords', agreed, confirmedWords)
           /\ split \in 0..agreed
           /\ Confirms = split
           /\ AgreedPrefix = UpTo(hypothesisWords', agreed)
           /\ confirmedWords' = confirmedWords \o UpTo(hypothesisWords', split)
           /\ lastAgreedSeconds' = Watermark(hypothesisWords', agreed, split, confirmedWords')
           /\ lastAgreedSeconds \in Nat /\ lastAgreedSeconds' \in Nat
           /\ \A s \in Starts(hypothesisWords') : s \in Nat /\ s >= lastAgreedSeconds
           /\ \A s \in Starts(confirmedWords') : s < lastAgreedSeconds'
<1> USE DEF IndInv
<1>1. PICK r \in Results : IngestAgreeing(r)
  BY AdvancesAgree
<1> DEFINE hypothesis == hypothesisWords'
           agreed == CommonPrefixLength(prevWords', hypothesis)
           split == SplitAtAStrictBoundary(hypothesis, agreed, confirmedWords)
<1>2. /\ hypothesis \in Seq(Word)
      /\ agreed \in 1..Len(hypothesis) /\ split \in 0..agreed
      /\ \A s \in Starts(hypothesis) : s >= lastAgreedSeconds
      /\ confirmedWords' = confirmedWords \o UpTo(hypothesis, split)
      /\ Len(lastAgreedWords') = agreed - split
      /\ lastAgreedSeconds' \in Instant
      /\ \A s \in Starts(confirmedWords') : s < lastAgreedSeconds'
  BY <1>1, AdvanceFacts DEF SettledBehindWatermark
<1>3. lastAgreedSeconds' = Watermark(hypothesis, agreed, split, confirmedWords')
  BY <1>1 DEF IngestAgreeing
<1> HIDE DEF hypothesis, agreed
<1>4. /\ confirmedWords \in Seq(Word) /\ lastAgreedSeconds \in Nat
      /\ lastAgreedSeconds' \in Nat
  BY <1>2 DEF TypeOK, Instant
<1>5. Starts(hypothesis) \in SUBSET Nat
  BY <1>2, StartsFacts
<1>6. split \in 0..Len(hypothesis) /\ split \in Nat /\ agreed \in Nat
  <2> HIDE DEF split
  <2>1. QED
    BY <1>2
<1>7. UpTo(hypothesis, split) \in Seq(Word) /\ Len(UpTo(hypothesis, split)) = split
  <2> HIDE DEF split
  <2>1. QED
    BY <1>2, <1>6, SliceType
<1>8. Len(confirmedWords') = Len(confirmedWords) + split
  BY <1>2, <1>4, <1>7, ConcatenationFacts
<1> HIDE DEF split
<1>9. Confirms = split
  BY <1>4, <1>6, <1>8 DEF Confirms
<1>10. Confirms + Len(lastAgreedWords') = agreed
  BY <1>2, <1>6, <1>9
<1>11. AgreedPrefix = UpTo(hypothesis, agreed)
  BY <1>10 DEF AgreedPrefix, hypothesis
<1>12. QED
  BY <1>2, <1>3, <1>4, <1>5, <1>6, <1>9, <1>11 DEF hypothesis, split

\* The watermark never moves back.
LEMMA WatermarkNeverRetreats ==
  IndInv /\ [Next]_vars => lastAgreedSeconds' >= lastAgreedSeconds
<1> SUFFICES ASSUME IndInv, [Next]_vars PROVE lastAgreedSeconds' >= lastAgreedSeconds
  OBVIOUS
<1>1. lastAgreedSeconds \in Nat
  BY DEF IndInv, TypeOK, Instant
<1>2. ASSUME NEW r \in Results, IngestAgreeing(r)
      PROVE  lastAgreedSeconds' >= lastAgreedSeconds
  BY <1>2, AdvanceFacts DEF IndInv
<1>3. (\A r \in Results : ~IngestAgreeing(r)) => UNCHANGED lastAgreedSeconds
  BY DEF Next, Ingest, IngestWordless, IngestFirst, IngestDisagreeing, Finalize, vars
<1>4. QED
  BY <1>1, <1>2, <1>3

-----------------------------------------------------------------------------
(* The theorems. *)

\* An empty holdback has no tokens at all.
LEMMA FitsInit == Init => HoldbackFitsPrefill
<1> SUFFICES ASSUME Init PROVE HoldbackFitsPrefill
  OBVIOUS
<1>1. <<>> \in Seq(Word) /\ PrefillBudget >= 0
  BY BudgetAssumption
<1>2. PrefillTokens(<<>>) = 0
  BY <1>1, MarksAreCounted
<1>3. QED
  BY <1>1, <1>2 DEF Init, HoldbackFitsPrefill

\* A step that advances cuts at or past the budget's floor; no other step
\* touches the holdback.
LEMMA FitsNext == IndInv /\ HoldbackFitsPrefill /\ [Next]_vars => HoldbackFitsPrefill'
<1> SUFFICES ASSUME IndInv, HoldbackFitsPrefill, [Next]_vars PROVE HoldbackFitsPrefill'
  OBVIOUS
<1>1. ASSUME NEW r \in Results, IngestAgreeing(r) PROVE HoldbackFitsPrefill'
  <2> DEFINE hypothesis == hypothesisWords'
             agreed == CommonPrefixLength(prevWords', hypothesis)
             split == SplitAtAStrictBoundary(hypothesis, agreed, confirmedWords)
             common == UpTo(hypothesis, agreed)
             floor == BudgetedSplit(common)
  <2>1. /\ hypothesis \in Seq(Word) /\ agreed \in 1..Len(hypothesis) /\ split \in 0..agreed
        /\ lastAgreedWords' = From(common, split) /\ confirmedWords \in Seq(Word)
    BY <1>1, AdvanceFacts DEF IndInv, TypeOK
  <2> HIDE DEF hypothesis, agreed
  <2>2. common \in Seq(Word) /\ Len(common) = agreed /\ agreed \in Nat /\ agreed \in 0..Len(hypothesis)
    BY <2>1, SliceType
  <2>3. split \in floor..agreed
    BY <2>1, <2>2, SplitCases
  <2> HIDE DEF split, common
  <2>4. floor \in 0..agreed
        /\ (floor < agreed => ~(PrefillTokens(From(common, floor)) > PrefillBudget))
    BY <2>2, FloorFacts
  <2> HIDE DEF floor
  <2>5. CASE split = agreed
    <3>1. From(common, agreed) = <<>>
      BY <2>2 DEF From
    <3>2. lastAgreedWords' = <<>> /\ <<>> \in Seq(Word)
      BY <2>1, <2>5, <3>1
    <3>3. PrefillTokens(<<>>) = 0
      BY <3>2, MarksAreCounted
    <3>4. QED
      BY <3>2, <3>3, BudgetAssumption DEF HoldbackFitsPrefill
  <2>6. CASE split # agreed
    <3>1. /\ floor < agreed /\ floor \in 0..Len(common) /\ split \in floor..Len(common)
          /\ split \in 0..Len(common)
      BY <2>2, <2>3, <2>4, <2>6
    <3>2. PrefillTokens(From(common, split)) <= PrefillTokens(From(common, floor))
      BY <2>2, <3>1, ShorterFits
    <3>3. From(common, split) \in Seq(Word) /\ From(common, floor) \in Seq(Word)
      BY <2>2, <3>1, SliceType
    <3>4. PrefillTokens(From(common, split)) \in Nat /\ PrefillTokens(From(common, floor)) \in Nat
      BY <3>3, MarksAreCounted
    <3>5. PrefillTokens(From(common, split)) <= PrefillBudget
      BY <2>4, <3>1, <3>2, <3>4, BudgetAssumption
    <3>6. QED
      BY <2>1, <3>5 DEF HoldbackFitsPrefill
  <2>7. QED
    BY <2>5, <2>6
<1>2. lastAgreedWords' = lastAgreedWords \/ \E r \in Results : IngestAgreeing(r)
  BY DEF Next, Ingest, IngestWordless, IngestFirst, IngestDisagreeing, Finalize, vars
<1>3. QED
  BY <1>1, <1>2 DEF HoldbackFitsPrefill

\* What is held back fits the next decode's prefill, for every budget and every
\* split: the budget's floor is a floor of the back-off too.
THEOREM HoldbacksFit == Spec => []HoldbackFitsPrefill
  BY InitInd, NextInd, FitsInit, FitsNext, PTL DEF Spec

\* Every held-back word can still be offered to the next round: none falls
\* behind the watermark its own advance sets.
THEOREM HoldbackIsOfferable == Spec => []HoldbackOfferable
BY SettledIsBehindTheWatermark, PTL

\* Progress of an advance: an agreed prefix that the prefill cannot carry
\* confirms something, what confirms moves the watermark on, and nothing moves
\* it back.
THEOREM AdvancesAreSound == Spec => AdvanceIsSound
<1>1. ASSUME IndInv, [Next]_vars, Advances
      PROVE  /\ PrefillTokens(AgreedPrefix) > PrefillBudget => Confirms > 0
             /\ Confirms > 0 => lastAgreedSeconds' > lastAgreedSeconds
  <2> DEFINE hypothesis == hypothesisWords'
  <2>1. PICK agreed \in 1..Len(hypothesis), split \in 0..Len(hypothesis) :
          /\ hypothesis \in Seq(Word)
          /\ split = SplitAtAStrictBoundary(hypothesis, agreed, confirmedWords)
          /\ Confirms = split
          /\ AgreedPrefix = UpTo(hypothesis, agreed)
          /\ confirmedWords' = confirmedWords \o UpTo(hypothesis, split)
          /\ lastAgreedSeconds \in Nat /\ lastAgreedSeconds' \in Nat
          /\ \A s \in Starts(hypothesis) : s \in Nat /\ s >= lastAgreedSeconds
          /\ \A s \in Starts(confirmedWords') : s < lastAgreedSeconds'
    BY <1>1, AdvanceLayout
  <2> HIDE DEF hypothesis
  <2>2. confirmedWords \in Seq(Word)
    BY <1>1 DEF IndInv, TypeOK
  <2>3. ASSUME PrefillTokens(AgreedPrefix) > PrefillBudget PROVE split > 0
    <3> DEFINE common == UpTo(hypothesis, agreed)
    <3>1. agreed \in 0..Len(hypothesis) /\ common \in Seq(Word) /\ Len(common) = agreed
      <4>1. hypothesis \in Seq(Word) /\ agreed \in 0..Len(hypothesis)
        BY <2>1
      <4>2. QED
        BY <4>1, SliceType
    <3>2. PrefillTokens(common) > PrefillBudget
      BY <2>1, <2>3
    <3>3. split \in BudgetedSplit(common)..agreed
      BY <2>1, <2>2, <3>1, SplitCases
    <3> HIDE DEF common
    <3>4. BudgetedSplit(common) \in Nat /\ BudgetedSplit(common) > 0
      BY <3>1, <3>2, FloorFacts
    <3>5. QED
      BY <3>3, <3>4
  <2>4. ASSUME split > 0 PROVE lastAgreedSeconds' > lastAgreedSeconds
    <3>1. /\ UpTo(hypothesis, split) \in Seq(Word)
          /\ hypothesis[1].start \in Starts(UpTo(hypothesis, split))
          /\ Starts(UpTo(hypothesis, split)) \subseteq Starts(hypothesis)
      BY <2>1, <2>4, SliceType, StartsOfSlices
    <3>2. Starts(confirmedWords')
            = Starts(confirmedWords) \cup Starts(UpTo(hypothesis, split))
      BY <2>1, <2>2, <3>1, StartsOfConcatenation
    <3>3. /\ hypothesis[1].start \in Nat
          /\ hypothesis[1].start >= lastAgreedSeconds
          /\ hypothesis[1].start < lastAgreedSeconds'
      BY <2>1, <3>1, <3>2
    <3>4. QED
      BY <2>1, <3>3
  <2>5. QED
    BY <2>1, <2>3, <2>4
<1>2. Spec => []IndInv
  BY InitInd, NextInd, PTL DEF Spec
<1>3. IndInv /\ [Next]_vars =>
        [/\ lastAgreedSeconds' >= lastAgreedSeconds
         /\ Advances =>
              /\ PrefillTokens(AgreedPrefix) > PrefillBudget => Confirms > 0
              /\ Confirms > 0 => lastAgreedSeconds' > lastAgreedSeconds]_vars
  BY <1>1, WatermarkNeverRetreats
<1>4. QED
  BY <1>2, <1>3, PTL DEF Spec, AdvanceIsSound

\* A word falls behind the watermark unconfirmed only when every split that
\* keeps the prefill within budget would strand one, at any watermark.
THEOREM StrandsAreUnavoidable == Spec => NoAvoidableStrand
<1>1. ASSUME IndInv, [Next]_vars, Advances, Strands(From(hypothesisWords', Confirms)),
             NEW k \in 0..Len(AgreedPrefix),
             ~(PrefillTokens(From(AgreedPrefix, k)) > PrefillBudget),
             NEW w \in Starts(hypothesisWords') \cup {lastAgreedSeconds'}
      PROVE  \/ \E s \in Starts(confirmedWords) \cup Starts(UpTo(hypothesisWords', k)) : s >= w
             \/ \E u \in Starts(From(hypothesisWords', k)) : u < w
  <2> DEFINE hypothesis == hypothesisWords'
  <2>1. PICK agreed \in 1..Len(hypothesis), split \in 0..Len(hypothesis) :
          /\ hypothesis \in Seq(Word)
          /\ split = SplitAtAStrictBoundary(hypothesis, agreed, confirmedWords)
          /\ split \in 0..agreed
          /\ Confirms = split
          /\ AgreedPrefix = UpTo(hypothesis, agreed)
          /\ confirmedWords' = confirmedWords \o UpTo(hypothesis, split)
          /\ lastAgreedSeconds' = Watermark(hypothesis, agreed, split, confirmedWords')
          /\ lastAgreedSeconds' \in Nat
          /\ \A s \in Starts(hypothesis) : s \in Nat
    BY <1>1, AdvanceLayout
  <2> DEFINE common == UpTo(hypothesis, agreed)
             floor == BudgetedSplit(common)
  <2>2. \E s \in Starts(From(hypothesis, split)) : s < lastAgreedSeconds'
    BY <1>1, <2>1 DEF Strands
  <2> HIDE DEF hypothesis
  <2>3. confirmedWords \in Seq(Word)
    BY <1>1 DEF IndInv, TypeOK
  <2>4. /\ agreed \in 0..Len(hypothesis) /\ agreed \in Nat
        /\ common \in Seq(Word) /\ Len(common) = agreed
    BY <2>1, SliceType
  <2> HIDE DEF common
  <2>5. ~LegalAt(hypothesis, confirmedWords, split)
    <3>1. SUFFICES ASSUME LegalAt(hypothesis, confirmedWords, split) PROVE FALSE
      OBVIOUS
    <3>2. \A u \in Starts(From(hypothesis, split)) : u >= lastAgreedSeconds'
      BY <2>1, <2>3, <3>1, LegalCutSparesAll
    <3>3. Starts(From(hypothesis, split)) \subseteq Starts(hypothesis)
      BY <2>1, StartsOfSlices
    <3>4. QED
      BY <2>1, <2>2, <3>2, <3>3
  <2>6. floor \in 0..agreed /\ k \in 0..agreed /\ k >= floor
    <3>1. k \in 0..Len(common) /\ ~(PrefillTokens(From(common, k)) > PrefillBudget)
      BY <1>1, <2>1 DEF common
    <3>2. QED
      BY <2>4, <3>1, FloorFacts
  <2>7. ~LegalAt(hypothesis, confirmedWords, k)
    <3>1. /\ split < agreed => LegalAt(hypothesis, confirmedWords, split)
          /\ split = agreed => \A n \in floor..(agreed - 1) :
                                 ~LegalAt(hypothesis, confirmedWords, n)
      BY <2>1, <2>3, <2>4, SplitCases DEF common
    <3> HIDE DEF floor
    <3>2. split = agreed
      BY <2>1, <2>4, <2>5, <3>1
    <3>3. k = agreed \/ k \in floor..(agreed - 1)
      BY <2>4, <2>6
    <3>4. QED
      BY <2>5, <3>1, <3>2, <3>3
  <2>8. PICK s \in Starts(confirmedWords) \cup Starts(UpTo(hypothesis, k)),
             u \in Starts(From(hypothesis, k)) : ~(s < u)
    BY <2>7 DEF LegalAt, ASparingWatermarkExists
  <2>9. s \in Nat /\ u \in Nat /\ w \in Nat
    <3>1. k \in 0..Len(hypothesis)
      BY <2>4, <2>6
    <3>2. /\ Starts(UpTo(hypothesis, k)) \subseteq Starts(hypothesis)
          /\ Starts(From(hypothesis, k)) \subseteq Starts(hypothesis)
      BY <2>1, <3>1, StartsOfSlices
    <3>3. Starts(confirmedWords) \in SUBSET Nat
      BY <2>3, StartsFacts
    <3>4. w \in Starts(hypothesis) \cup {lastAgreedSeconds'}
      BY DEF hypothesis
    <3>5. QED
      BY <2>1, <2>8, <3>2, <3>3, <3>4
  <2>10. s >= w \/ u < w
    BY <2>8, <2>9
  <2>11. QED
    BY <2>8, <2>10 DEF hypothesis
<1>2. Spec => []IndInv
  BY InitInd, NextInd, PTL DEF Spec
<1>3. IndInv /\ [Next]_vars =>
        [Advances /\ Strands(From(hypothesisWords', Confirms))
           => \A k \in 0..Len(AgreedPrefix) :
                ~(PrefillTokens(From(AgreedPrefix, k)) > PrefillBudget)
                  => \A w \in Starts(hypothesisWords') \cup {lastAgreedSeconds'} :
                       \/ \E s \in Starts(confirmedWords)
                                   \cup Starts(UpTo(hypothesisWords', k)) : s >= w
                       \/ \E u \in Starts(From(hypothesisWords', k)) : u < w]_vars
  BY <1>1
<1>4. QED
  BY <1>2, <1>3, PTL DEF Spec, NoAvoidableStrand

\* What makes the transcript end as it should: before a first worded result
\* there is no holdback, and what finalize would publish ends with the newest
\* hypothesis.
EndInv ==
  /\ prevResult = <<>> => lastAgreedWords = <<>> /\ prevWords = <<>>
  /\ ~finalized => \E head \in Seq(Word) : FinalizedWords = head \o hypothesisWords

LEMMA EmptyHypothesisEnds ==
  ASSUME TypeOK, hypothesisWords = <<>>
  PROVE  \E head \in Seq(Word) : FinalizedWords = head \o hypothesisWords
<1>1. PICK tail \in Seq(Word) : FinalizedWords = confirmedWords \o tail
  BY FinalizedWordsFacts
<1>2. confirmedWords \o tail \in Seq(Word)
  BY DEF TypeOK
<1>3. (confirmedWords \o tail) \o <<>> = confirmedWords \o tail
  BY <1>2
<1>4. QED
  BY <1>1, <1>2, <1>3

LEMMA EndStep == IndInv /\ IndInv' /\ EndInv /\ [Next]_vars => EndInv'
<1> SUFFICES ASSUME IndInv, IndInv', EndInv, [Next]_vars PROVE EndInv'
  OBVIOUS
<1>1. TypeOK /\ TypeOK'
  BY DEF IndInv
<1>2. ASSUME NEW r \in Results, IngestWordless(r) PROVE EndInv'
  BY <1>2 DEF IngestWordless, Observe, EndInv, FinalizedWords
<1>3. ASSUME NEW r \in Results, IngestFirst(r) PROVE EndInv'
  <2>1. /\ lastAgreedWords' = <<>> /\ prevWords' = <<>> /\ prevResult' # <<>>
        /\ holdbackSuperseded' = FALSE
    BY <1>3 DEF IngestFirst, EndInv
  <2>2. CommonPrefixLength(<<>>, hypothesisWords') = 0
    <3>1. <<>> \in Seq(Word) /\ hypothesisWords' \in Seq(Word)
      BY <1>1 DEF TypeOK
    <3>2. {n \in 0..Len(hypothesisWords') :
             /\ n <= Len(<<>>)
             /\ \A i \in 1..n : <<>>[i].text = hypothesisWords'[i].text} = {0}
      BY <3>1
    <3>3. Max({0}) \in {0}
      BY MaxOfBounded
    <3>4. QED
      BY <3>2, <3>3 DEF CommonPrefixLength
  <2>3. FinalizedWords' = (confirmedWords' \o <<>>) \o From(hypothesisWords', 0)
    BY <2>1, <2>2 DEF FinalizedWords, DifferentSuffix
  <2>4. From(hypothesisWords', 0) = hypothesisWords' /\ confirmedWords' \o <<>> = confirmedWords'
    BY <1>1 DEF TypeOK, From
  <2>5. QED
    BY <1>1, <2>1, <2>3, <2>4 DEF EndInv, TypeOK
<1>4. ASSUME NEW r \in Results, IngestDisagreeing(r) PROVE EndInv'
  <2>1. prevResult' # <<>> /\ holdbackSuperseded' = TRUE
    BY <1>4 DEF IngestDisagreeing, Compare
  <2>2. CASE hypothesisWords' = <<>>
    <3>1. (TypeOK /\ hypothesisWords = <<>>
             => \E head \in Seq(Word) : FinalizedWords = head \o hypothesisWords)'
      BY EmptyHypothesisEnds, PTL
    <3>2. QED
      BY <1>1, <2>1, <2>2, <3>1 DEF EndInv
  <2>3. CASE hypothesisWords' # <<>>
    <3>1. FinalizedWords' = confirmedWords' \o hypothesisWords'
      BY <2>1, <2>3 DEF FinalizedWords
    <3>2. QED
      BY <1>1, <2>1, <3>1 DEF EndInv, TypeOK
  <2>4. QED
    BY <2>2, <2>3
<1>5. ASSUME NEW r \in Results, IngestAgreeing(r) PROVE EndInv'
  <2> DEFINE hypothesis == hypothesisWords'
             agreed == CommonPrefixLength(prevWords', hypothesis)
             split == SplitAtAStrictBoundary(hypothesis, agreed, confirmedWords)
             lead == UpTo(hypothesis, split)
             held == From(UpTo(hypothesis, agreed), split)
             rest == From(hypothesis, agreed)
  <2>1. /\ hypothesis \in Seq(Word)
        /\ agreed \in 1..Len(hypothesis) /\ split \in 0..agreed
        /\ confirmedWords' = confirmedWords \o lead
        /\ lastAgreedWords' = held /\ held \in Seq(Word)
    BY <1>1, <1>5, AdvanceFacts DEF IndInv
  <2>2. holdbackSuperseded' = FALSE /\ prevResult' # <<>>
    BY <1>5 DEF IngestAgreeing, Compare
  <2>3. FinalizedWords' = ((confirmedWords \o lead) \o held) \o rest
    BY <2>1, <2>2 DEF FinalizedWords, DifferentSuffix
  <2> HIDE DEF hypothesis, agreed, split
  <2>4. lead \o (held \o rest) = hypothesis
    <3>1. agreed \in 0..Len(hypothesis)
      BY <2>1
    <3>2. QED
      BY <2>1, <3>1, SlicesRejoin
  <2>5. lead \in Seq(Word) /\ rest \in Seq(Word)
    <3>1. agreed \in 0..Len(hypothesis) /\ split \in 0..Len(hypothesis)
      BY <2>1
    <3>2. QED
      BY <2>1, <3>1, SliceType
  <2> HIDE DEF lead, held, rest
  <2>6. confirmedWords \in Seq(Word)
    BY <1>1 DEF TypeOK
  <2>7. ((confirmedWords \o lead) \o held) \o rest
          = confirmedWords \o (lead \o (held \o rest))
    <3>a. held \in Seq(Word)
      BY <2>1
    <3>b. confirmedWords \o lead \in Seq(Word)
      BY <2>5, <2>6
    <3>c. held \o rest \in Seq(Word)
      BY <3>a, <2>5
    <3>1. /\ confirmedWords \o lead \in Seq(Word) /\ held \o rest \in Seq(Word)
          /\ held \in Seq(Word)
      BY <3>a, <3>b, <3>c
    <3>2. ((confirmedWords \o lead) \o held) \o rest
            = (confirmedWords \o lead) \o (held \o rest)
      BY <2>5, <3>1, Associates, Zenon
    <3>3. (confirmedWords \o lead) \o (held \o rest)
            = confirmedWords \o (lead \o (held \o rest))
      BY <2>5, <2>6, <3>1, Associates, Zenon
    <3>4. QED
      BY <3>2, <3>3
  <2>8. FinalizedWords' = confirmedWords \o hypothesis
    BY <2>3, <2>4, <2>7
  <2>9. QED
    BY <2>2, <2>6, <2>8 DEF EndInv, hypothesis
<1>6. ASSUME Finalize PROVE EndInv'
  BY <1>6 DEF Finalize, EndInv
<1>7. CASE UNCHANGED vars
  BY <1>7 DEF vars, EndInv, FinalizedWords
<1>8. QED
  BY <1>2, <1>3, <1>4, <1>5, <1>6, <1>7 DEF Next, Ingest

\* Whatever was agreed, split, superseded or shortened, finalizing now would
\* publish the whole newest hypothesis, once, at the end.
THEOREM HypothesisEndsTheTranscript == Spec => []TranscriptEndsWithHypothesis
<1>1. Init => EndInv
  <2>1. SUFFICES ASSUME Init PROVE EndInv
    OBVIOUS
  <2>2. TypeOK
    BY <2>1, InitInd DEF IndInv
  <2>3. QED
    BY <2>1, <2>2, EmptyHypothesisEnds DEF Init, EndInv
<1>2. IndInv /\ EndInv => TranscriptEndsWithHypothesis
  BY TailOfConcatenation DEF IndInv, TypeOK, EndInv, TranscriptEndsWithHypothesis
<1>3. QED
  BY <1>1, <1>2, InitInd, NextInd, EndStep, PTL DEF Spec

-----------------------------------------------------------------------------
(* The driver: it runs the engine and nothing else of it, so that what is  *)
(* proved of the engine holds of the driven one; it takes the recording in *)
(* whole strides, each after the other; and it asks a failed stride again  *)
(* as before.                                                              *)

\* A request is a request, and one for the stride that is next was made from
\* the watermark and the holdback as they are: nothing has moved them since.
RequestIsCurrent ==
  /\ request = [end |-> request.end, options |-> request.options]
  /\ request.end \in Nat
  /\ request.end = transcribed + StrideSamples
       => request.options = DecodingOptionsForNext

\* The inductive invariant.
DriverInd ==
  /\ IndInv
  /\ DriverTypeOK
  /\ StrideInOrder
  /\ NothingLeftBehind
  /\ RequestIsCurrent

\* A step of the driver is a step of the engine, or none.
LEMMA DriverStepsAreEngineSteps == [DriverNext]_allVars => [Next]_vars
BY DEF DriverNext, Push, StartStride, StrideDecoded, StrideFailed, PushReturns,
       FinalizeDriver, Next, allVars

LEMMA DriverInitInd == DriverInit => DriverInd
<1> SUFFICES ASSUME DriverInit PROVE DriverInd
  OBVIOUS
<1>1. IndInv /\ TypeOK
  BY InitInd DEF DriverInit, IndInv
<1>2. 0 \in {k * StrideSamples : k \in 0..0}
  BY StrideAssumption
<1>3. DriverTypeOK
  BY <1>1, <1>2, BufferAssumption DEF DriverInit, DriverTypeOK
<1>4. StrideInOrder /\ NothingLeftBehind
  BY DEF DriverInit, StrideInOrder, NothingLeftBehind
<1>5. RequestIsCurrent
  BY StrideAssumption DEF DriverInit, NoRequest, RequestIsCurrent
<1>6. QED
  BY <1>1, <1>3, <1>4, <1>5 DEF DriverInd

\* One stride more is still a number of strides.
LEMMA OneStrideMore ==
  ASSUME NEW size \in Nat, NEW done \in {k * StrideSamples : k \in 0..size},
         done + StrideSamples <= size
  PROVE  done + StrideSamples \in {k * StrideSamples : k \in 0..size}
<1>1. PICK k \in 0..size : done = k * StrideSamples
  OBVIOUS
<1>2. StrideSamples \in Nat /\ StrideSamples >= 1
  BY StrideAssumption
<1>3. (k + 1) * StrideSamples = done + StrideSamples
  BY <1>1, <1>2
<1>4. k * StrideSamples >= k
  <2>1. k * (StrideSamples - 1) >= 0
    BY <1>2
  <2>2. k * (StrideSamples - 1) = k * StrideSamples - k
    BY <1>2
  <2>3. QED
    BY <1>2, <2>1, <2>2
<1>5. k + 1 \in 0..size
  BY <1>1, <1>2, <1>4
<1>6. QED
  BY <1>3, <1>5

\* Strides are numbers of samples.
LEMMA StridesAreNaturals ==
  ASSUME DriverTypeOK
  PROVE  /\ buffer \in Nat /\ transcribed \in Nat /\ StrideSamples \in Nat
         /\ StrideSamples > 0
  BY StrideAssumption, BufferAssumption DEF DriverTypeOK

LEMMA DriverNextInd == DriverInd /\ [DriverNext]_allVars => DriverInd'
<1> SUFFICES ASSUME DriverInd, [DriverNext]_allVars PROVE DriverInd'
  OBVIOUS
<1>1. IndInv' /\ TypeOK'
  BY DriverStepsAreEngineSteps, NextInd DEF DriverInd, IndInv
<1>2. /\ buffer \in Nat /\ transcribed \in Nat /\ StrideSamples \in Nat
      /\ StrideSamples > 0
  BY StridesAreNaturals DEF DriverInd
<1>3. ASSUME NEW samples \in Pushes, Push(samples) PROVE DriverInd'
  <2>1. samples \in Nat /\ buffer' = buffer + samples /\ buffer' <= MaxBuffer
    BY <1>3, PushAssumption DEF Push
  <2>2. transcribed \in {k * StrideSamples : k \in 0..buffer'}
    BY <1>2, <2>1 DEF DriverInd, DriverTypeOK
  <2>3. DriverTypeOK'
    BY <1>1, <1>2, <1>3, <2>1, <2>2, BufferAssumption DEF Push, DriverTypeOK, DriverInd
  <2>4. StrideInOrder' /\ NothingLeftBehind'
    BY <1>2, <1>3, <2>1 DEF DriverInd, Push, StrideInOrder, NothingLeftBehind
  <2>5. RequestIsCurrent'
    BY <1>3 DEF DriverInd, Push, RequestIsCurrent, DecodingOptionsForNext, vars
  <2>6. QED
    BY <1>1, <2>3, <2>4, <2>5 DEF DriverInd
<1>4. ASSUME StartStride PROVE DriverInd'
  <2>1. DriverTypeOK'
    BY <1>1, <1>4 DEF StartStride, DriverTypeOK, DriverInd
  <2>2. StrideInOrder' /\ NothingLeftBehind'
    BY <1>2, <1>4
    DEF DriverInd, StartStride, StridePending, StrideInOrder, NothingLeftBehind
  <2>3. RequestIsCurrent'
    BY <1>2, <1>4
    DEF DriverInd, StartStride, RequestIsCurrent, DecodingOptionsForNext, vars
  <2>4. QED
    BY <1>1, <2>1, <2>2, <2>3 DEF DriverInd
<1>5. ASSUME NEW r \in Results, StrideDecoded(r) PROVE DriverInd'
  <2>1. /\ request.end = transcribed + StrideSamples /\ request.end <= buffer
        /\ transcribed' = transcribed + StrideSamples
        /\ call' = "looping" /\ UNCHANGED <<buffer, request, returned>>
    BY <1>5 DEF DriverInd, StrideDecoded, StrideInOrder
  <2>2. transcribed' \in {k * StrideSamples : k \in 0..buffer}
    BY <1>2, <2>1, OneStrideMore DEF DriverInd, DriverTypeOK
  <2>3. DriverTypeOK'
    BY <1>1, <2>1, <2>2 DEF DriverTypeOK, DriverInd
  <2>4. StrideInOrder' /\ NothingLeftBehind'
    BY <1>2, <2>1 DEF DriverInd, StrideInOrder, NothingLeftBehind
  <2>5. RequestIsCurrent'
    BY <1>2, <2>1 DEF DriverInd, RequestIsCurrent
  <2>6. QED
    BY <1>1, <2>3, <2>4, <2>5 DEF DriverInd
<1>6. ASSUME StrideFailed PROVE DriverInd'
  <2>1. DriverTypeOK'
    BY <1>1, <1>6 DEF StrideFailed, DriverTypeOK, DriverInd
  <2>2. StrideInOrder' /\ NothingLeftBehind'
    BY <1>2, <1>6
    DEF DriverInd, StrideFailed, StridePending, StrideInOrder, NothingLeftBehind
  <2>3. RequestIsCurrent'
    BY <1>6 DEF DriverInd, StrideFailed, RequestIsCurrent, DecodingOptionsForNext, vars
  <2>4. QED
    BY <1>1, <2>1, <2>2, <2>3 DEF DriverInd
<1>7. ASSUME PushReturns PROVE DriverInd'
  <2>1. DriverTypeOK'
    BY <1>1, <1>7 DEF PushReturns, DriverTypeOK, DriverInd
  <2>2. StrideInOrder' /\ NothingLeftBehind'
    BY <1>2, <1>7
    DEF DriverInd, PushReturns, StridePending, StrideInOrder, NothingLeftBehind
  <2>3. RequestIsCurrent'
    BY <1>7 DEF DriverInd, PushReturns, RequestIsCurrent, DecodingOptionsForNext, vars
  <2>4. QED
    BY <1>1, <2>1, <2>2, <2>3 DEF DriverInd
<1>8. ASSUME FinalizeDriver PROVE DriverInd'
  <2>1. UNCHANGED driverVars /\ UNCHANGED <<lastAgreedSeconds, lastAgreedWords>>
    BY <1>8 DEF FinalizeDriver, Finalize
  <2>2. DriverTypeOK' /\ StrideInOrder' /\ NothingLeftBehind' /\ RequestIsCurrent'
    BY <1>1, <2>1
    DEF DriverInd, driverVars, DriverTypeOK, StrideInOrder, NothingLeftBehind,
        StridePending, RequestIsCurrent, DecodingOptionsForNext
  <2>3. QED
    BY <1>1, <2>2 DEF DriverInd
<1>9. CASE UNCHANGED allVars
  <2>1. DriverTypeOK' /\ StrideInOrder' /\ NothingLeftBehind' /\ RequestIsCurrent'
    BY <1>1, <1>9
    DEF DriverInd, allVars, vars, driverVars, DriverTypeOK, StrideInOrder,
        NothingLeftBehind, StridePending, RequestIsCurrent, DecodingOptionsForNext
  <2>2. QED
    BY <1>1, <2>1 DEF DriverInd
<1>10. QED
  BY <1>3, <1>4, <1>5, <1>6, <1>7, <1>8, <1>9 DEF DriverNext

-----------------------------------------------------------------------------
(* The theorems. *)

\* The driver's invariant for every stride and every budget: the recording goes
\* stride by stride, and no decode is prefilled with more than its budget.
THEOREM DriverHolds == DriverSpec => []DriverInv
<1>1. DriverInd => DriverTypeOK /\ StrideInOrder /\ NothingLeftBehind
  BY DEF DriverInd
<1>2. DriverInit => Init
  BY DEF DriverInit
<1>3. DriverSpec => Spec
  BY <1>2, DriverStepsAreEngineSteps, PTL DEF DriverSpec, Spec
<1>4. DriverSpec => [](DriverTypeOK /\ StrideInOrder /\ NothingLeftBehind)
  BY <1>1, DriverInitInd, DriverNextInd, PTL DEF DriverSpec
<1>5. DriverTypeOK /\ StrideInOrder /\ NothingLeftBehind /\ HoldbackFitsPrefill => DriverInv
  BY DEF DriverInv
<1>6. QED
  BY <1>3, <1>4, <1>5, HoldbacksFit, PTL

\* Audio is decoded in whole strides, none skipped and none past the recording;
\* a call that returned Ok left less than one and a call that failed left one.
THEOREM StridesAreKept ==
  DriverSpec => [](DriverTypeOK /\ StrideInOrder /\ NothingLeftBehind)
<1>1. DriverInd => DriverTypeOK /\ StrideInOrder /\ NothingLeftBehind
  BY DEF DriverInd
<1>2. QED
  BY <1>1, DriverInitInd, DriverNextInd, PTL DEF DriverSpec

\* A stride that failed is asked for again exactly as before: two requests that
\* end alike are the same request.
THEOREM RetriesAskTheSame == DriverSpec => RetryAsksTheSame
<1>1. ASSUME DriverInd, [DriverNext]_allVars, request' # request
      PROVE  request'.end # request.end
  <2>1. StartStride
    BY <1>1 DEF DriverNext, Push, StrideDecoded, StrideFailed, PushReturns,
                FinalizeDriver, driverVars, allVars
  <2>2. request' = [end |-> transcribed + StrideSamples, options |-> DecodingOptionsForNext]
    BY <2>1 DEF StartStride
  <2>3. SUFFICES ASSUME request'.end = request.end PROVE FALSE
    OBVIOUS
  <2>4. request.end = transcribed + StrideSamples
    BY <2>2, <2>3
  <2>5. request = [end |-> transcribed + StrideSamples, options |-> DecodingOptionsForNext]
    BY <1>1, <2>4 DEF DriverInd, RequestIsCurrent
  <2>6. QED
    BY <1>1, <2>2, <2>5
<1>2. DriverInd /\ [DriverNext]_allVars =>
        [request' # request => request'.end # request.end]_allVars
  BY <1>1
<1>3. QED
  BY <1>2, DriverInitInd, DriverNextInd, PTL DEF DriverSpec, RetryAsksTheSame

\* The driver runs the engine: every behaviour of it, failed strides and all,
\* is one of the engine's own.
THEOREM DriverRunsTheEngine == DriverSpec => Spec
<1>1. DriverInit => Init
  BY DEF DriverInit
<1>2. QED
  BY <1>1, DriverStepsAreEngineSteps, PTL DEF DriverSpec, Spec

\* So the driven engine keeps the engine's promise, settles behind its
\* watermark, advances soundly and ends its transcript with the newest
\* hypothesis, whatever decodes fail in between.
THEOREM DrivenEngineIsSound ==
  DriverSpec => /\ PromiseKept
                /\ []SettledBehindWatermark
                /\ AdvanceIsSound
                /\ []TranscriptEndsWithHypothesis
BY DriverRunsTheEngine, EngineKeepsThePromise, SettledIsBehindTheWatermark,
   AdvancesAreSound, HypothesisEndsTheTranscript, PTL
=============================================================================
