------------------------- MODULE WindowDecode_proofs -------------------------
(***************************************************************************)
(* One window's decode, for every vocabulary, context, prompt and set of   *)
(* options, whatever the model predicts and wherever the loop ends.        *)
(***************************************************************************)
EXTENDS WindowDecode, Selections_proofs, SequenceTheorems

-----------------------------------------------------------------------------
(* Numbers and sequences. *)

\* The tokens a decode goes on with.
Going == Vocab \ {EndToken}

LEMMA VocabFacts ==
  /\ Vocab \subseteq Nat /\ EndToken \in Nat /\ TimeBegin \in Nat /\ EndToken \in Vocab
  /\ EndToken < TimeBegin
  /\ Times \subseteq Going /\ TimeBegin \in Times /\ NoTimestamps \in Going
  /\ StartOfTranscript \in Going /\ StartOfPrev \in Going
  /\ Languages \subseteq Going /\ TaskTokens \subseteq Going
  /\ StartOfTranscript < TimeBegin /\ \A t \in TaskTokens : t < TimeBegin
<1>1. Words \subseteq Nat /\ Specials \subseteq Nat /\ Times \subseteq Nat
      /\ TimeBegin \in Nat /\ LastTime \in Nat /\ TimeBegin < LastTime
  BY VocabAssumption DEF Times
<1>2. /\ EndToken \in Specials /\ StartOfTranscript \in Specials /\ StartOfPrev \in Specials
      /\ NoTimestamps \in Specials /\ Languages \subseteq Specials /\ TaskTokens \subseteq Specials
  BY DEF Specials
<1>3. \A s \in Specials : EndToken <= s /\ s < TimeBegin
  BY VocabAssumption
<1>4. \A t \in Times : t # EndToken
  BY <1>1, <1>2, <1>3 DEF Times
<1>5. TimeBegin \in Times
  BY <1>1 DEF Times
<1>6. EndToken \notin {StartOfTranscript, StartOfPrev, NoTimestamps} \cup Languages \cup TaskTokens
  BY VocabAssumption
<1>7. Vocab \subseteq Nat /\ Specials \subseteq Vocab /\ Times \subseteq Vocab
  BY <1>1 DEF Vocab
<1>8. QED
  BY <1>1, <1>2, <1>3, <1>4, <1>5, <1>6, <1>7 DEF Going

LEMMA MaxOfTwo ==
  ASSUME NEW a \in Int, NEW b \in Int
  PROVE  Max({a, b}) = IF a >= b THEN a ELSE b
<1>1. {a, b} \in SUBSET Int /\ {a, b} # {}
  OBVIOUS
<1>2. PICK c \in Int : \A x \in {a, b} : x <= c
  <2>1. CASE a >= b
    BY <2>1
  <2>2. CASE ~(a >= b)
    BY <2>2
  <2>3. QED
    BY <2>1, <2>2
<1>3. Max({a, b}) \in {a, b} /\ \A y \in {a, b} : Max({a, b}) >= y
  BY <1>1, <1>2, MaxOfBounded
<1>4. QED
  BY <1>3

LEMMA MinOfTwo ==
  ASSUME NEW a \in Nat, NEW b \in Nat
  PROVE  Min({a, b}) = IF a <= b THEN a ELSE b
<1>1. {a, b} \in SUBSET Nat /\ {a, b} # {}
  OBVIOUS
<1>2. Min({a, b}) \in {a, b} /\ \A y \in {a, b} : Min({a, b}) <= y
  BY <1>1, MinOfNaturals
<1>3. QED
  BY <1>2

LEMMA MaxOfIndices ==
  ASSUME NEW n \in Nat, NEW S \in SUBSET (0..n), S # {}
  PROVE  Max(S) \in S /\ \A y \in S : y <= Max(S)
<1>1. S \in SUBSET Int /\ n \in Int /\ \A x \in S : x <= n
  OBVIOUS
<1>2. Max(S) \in S /\ \A y \in S : Max(S) >= y
  BY <1>1, MaxOfBounded
<1>3. QED
  BY <1>1, <1>2

LEMMA SuffixTyped ==
  ASSUME NEW T, NEW s \in Seq(T), NEW n \in Int
  PROVE  Suffix(s, n) \in Seq(T)
<1>1. Len(s) \in Nat /\ Len(s) - n \in Int /\ 0 \in Int
  OBVIOUS
<1>2. PICK m \in Int : m = Max({0, Len(s) - n}) + 1 /\ m >= 1
  BY <1>1, MaxOfTwo
<1>3. Len(s) \in Int /\ \A i \in m..Len(s) : s[i] \in T
  BY <1>1, <1>2
<1>4. SubSeq(s, m, Len(s)) \in Seq(T)
  BY <1>3, SubSeqProperties, Zenon
<1>5. QED
  BY <1>2, <1>4 DEF Suffix

LEMMA NarrowedSeq ==
  ASSUME NEW S, NEW T, NEW s \in Seq(S), \A k \in 1..Len(s) : s[k] \in T
  PROVE  s \in Seq(T)
OBVIOUS

LEMMA WordsTyped ==
  ASSUME NEW s \in Seq(Vocab)
  PROVE  WordsOf(s) \in Seq(Going)
<1> DEFINE idx == {i \in DOMAIN s : s[i] < EndToken}
<1>1. /\ At(s, idx) \in Seq(Vocab)
      /\ \A k \in 1..Len(At(s, idx)) : \E i \in idx : At(s, idx)[k] = s[i]
  <2>1. idx \in SUBSET (DOMAIN s)
    OBVIOUS
  <2> HIDE DEF idx
  <2>2. QED
    BY <2>1, SelectionType
<1>2. \A i \in idx : s[i] \in Going
  <2>1. \A i \in idx : s[i] \in Vocab /\ s[i] < EndToken
    OBVIOUS
  <2>2. \A v \in Vocab : v < EndToken => v # EndToken
    BY VocabFacts
  <2>3. QED
    BY <2>1, <2>2 DEF Going
<1>3. \A k \in 1..Len(At(s, idx)) : At(s, idx)[k] \in Going
  BY <1>1, <1>2
<1>4. At(s, idx) \in Seq(Going)
  BY <1>1, <1>3, NarrowedSeq
<1>5. QED
  BY <1>4 DEF WordsOf

-----------------------------------------------------------------------------
(* The prompt is of tokens a decode goes on with, and starts a transcript. *)

LEMMA PrefillFacts ==
  ASSUME NEW o \in Options
  PROVE  /\ PrefillTokens(o) \in Seq(Going)
         /\ \E i \in 1..Len(PrefillTokens(o)) : PrefillTokens(o)[i] = StartOfTranscript
<1>1. /\ o.language \in Languages /\ o.task \in TaskTokens
      /\ o.promptTokens \in Seq(Vocab) /\ o.prefixTokens \in Seq(Vocab)
  BY OptionsAssumption
<1> DEFINE named == IF Multilingual THEN <<o.language, o.task>> ELSE <<>>
           timed == <<IF o.withoutTimestamps THEN NoTimestamps ELSE TimeBegin>>
           lead == <<StartOfTranscript>> \o named \o timed
           words == WordsOf(Suffix(o.promptTokens, MaxContext \div 2 - 1))
           previous == IF o.promptTokens = <<>> THEN <<>> ELSE <<StartOfPrev>> \o words
           prefix == WordsOf(Suffix(o.prefixTokens, MaxContext \div 2))
<1>2. words \in Seq(Going) /\ prefix \in Seq(Going)
  <2>1. MaxContext \div 2 \in Int /\ MaxContext \div 2 - 1 \in Int
    BY ContextAssumption
  <2>2. /\ Suffix(o.promptTokens, MaxContext \div 2 - 1) \in Seq(Vocab)
        /\ Suffix(o.prefixTokens, MaxContext \div 2) \in Seq(Vocab)
    BY <1>1, <2>1, SuffixTyped
  <2>3. QED
    BY <2>2, WordsTyped
<1>3. named \in Seq(Going)
  <2>1. o.language \in Going /\ o.task \in Going
    BY <1>1, VocabFacts
  <2>2. CASE Multilingual
    BY <2>1, <2>2
  <2>3. CASE ~Multilingual
    BY <2>3
  <2>4. QED
    BY <2>2, <2>3
<1>4. timed \in Seq(Going)
  BY VocabFacts
<1>5. <<StartOfTranscript>> \in Seq(Going) /\ <<StartOfPrev>> \in Seq(Going)
      /\ <<>> \in Seq(Going)
  BY VocabFacts
<1> HIDE DEF named, timed, words, prefix
<1>6. lead \in Seq(Going) /\ lead # <<>> /\ Len(lead) >= 1 /\ lead[1] = StartOfTranscript
  <2>1. named \o timed \in Seq(Going) /\ lead = (<<StartOfTranscript>> \o named) \o timed
    BY <1>3, <1>4
  <2>2. <<StartOfTranscript>> \o named \in Seq(Going)
        /\ Len(<<StartOfTranscript>> \o named) = 1 + Len(named)
        /\ (<<StartOfTranscript>> \o named)[1] = StartOfTranscript
    BY <1>3, <1>5, ConcatProperties
  <2>3. QED
    BY <1>3, <1>4, <2>1, <2>2, ConcatProperties
<1>7. previous \in Seq(Going)
  BY <1>2, <1>5, ConcatProperties
<1> HIDE DEF lead, previous
<1>8. /\ previous \o lead \in Seq(Going)
      /\ Len(previous \o lead) = Len(previous) + Len(lead)
      /\ (previous \o lead)[Len(previous) + 1] = StartOfTranscript
      /\ Len(previous) + 1 \in 1..(Len(previous) + Len(lead))
  BY <1>6, <1>7, ConcatProperties
<1>9. /\ (previous \o lead) \o prefix \in Seq(Going)
      /\ Len(previous) + 1 \in 1..Len((previous \o lead) \o prefix)
      /\ ((previous \o lead) \o prefix)[Len(previous) + 1] = StartOfTranscript
  BY <1>2, <1>6, <1>7, <1>8, ConcatProperties
<1>10. PrefillTokens(o) = (previous \o lead) \o prefix
  BY DEF PrefillTokens, previous, lead, prefix, named, timed, words
<1>11. QED
  BY <1>9, <1>10

LEMMA PromptFacts ==
  ASSUME options \in Options
  PROVE  /\ Prompt \in Seq(Going) /\ PromptLength \in Nat /\ PromptLength >= 1
         /\ \E i \in 1..PromptLength : Prompt[i] = StartOfTranscript
         /\ LoopCount \in Nat /\ LoopCount <= MaxContext - 1 /\ MaxContext - 1 \in Nat
<1>1. <<StartOfTranscript>> \in Seq(Going)
  BY VocabFacts
<1>2. Prompt \in Seq(Going) /\ \E i \in 1..Len(Prompt) : Prompt[i] = StartOfTranscript
  BY <1>1, PrefillFacts DEF Prompt
<1>3. options.sampleLength \in Nat /\ MaxContext - 1 \in Nat
  BY OptionsAssumption, ContextAssumption
<1>4. LoopCount \in Nat /\ LoopCount <= MaxContext - 1
  BY <1>3, MinOfTwo DEF LoopCount
<1>5. QED
  BY <1>2, <1>3, <1>4 DEF PromptLength

-----------------------------------------------------------------------------
(* What is said of the tokens the timestamp rules apply to. *)

TimedAt(sampled) == {i \in DOMAIN sampled : IsTime(sampled[i])}
Paired(sampled) ==
  /\ \A i, j \in TimedAt(sampled) : i < j => sampled[i] <= sampled[j]
  /\ \A i, j \in TimedAt(sampled) : i + 1 < j => sampled[i] < sampled[j]
  /\ \A i \in TimedAt(sampled) : i > 1 /\ i - 1 \notin TimedAt(sampled) =>
       i = Len(sampled) \/ sampled[i + 1] >= EndToken
Sampled(seq, begin) == SubSeq(seq, begin + 1, Len(seq))

LEMMA PairsAreTold ==
  TimesComeInPairs <=>
    (~options.withoutTimestamps =>
       \A begin \in EffectiveSampleBegin(tokens) : Paired(Sampled(tokens, begin)))
BY Zenon DEF TimesComeInPairs, Paired, Sampled, TimedAt

\* The rules apply from the prompt on, or from a task token after it.
LEMMA BeginFacts ==
  ASSUME options \in Options, NEW seq \in Seq(Vocab), Len(seq) >= PromptLength,
         NEW begin \in EffectiveSampleBegin(seq)
  PROVE  begin \in Nat /\ begin >= PromptLength /\ begin <= Len(seq)
<1>1. PromptLength \in Nat /\ Len(seq) \in Nat
  BY PromptFacts
<1>2. CASE ~Multilingual
  BY <1>1, <1>2 DEF EffectiveSampleBegin
<1>3. CASE Multilingual
  <2> DEFINE upto == Min({3, Len(seq)})
             tasks == {i \in 1..upto : seq[i] \in TaskTokens}
  <2>1. tasks # {} /\ begin = Max({Min(tasks), PromptLength})
    BY <1>3 DEF EffectiveSampleBegin
  <2>2. upto \in Nat /\ upto <= Len(seq)
    BY <1>1, MinOfTwo
  <2> HIDE DEF upto
  <2>3. tasks \in SUBSET Nat /\ \A i \in tasks : i <= Len(seq)
    BY <1>1, <2>2
  <2> HIDE DEF tasks
  <2>4. Min(tasks) \in Nat /\ Min(tasks) <= Len(seq)
    BY <2>1, <2>3, MinOfNaturals
  <2>5. begin = IF Min(tasks) >= PromptLength THEN Min(tasks) ELSE PromptLength
    BY <1>1, <2>1, <2>4, MaxOfTwo
  <2>6. QED
    BY <1>1, <2>4, <2>5
<1>4. QED
  BY <1>2, <1>3

LEMMA NothingIsPaired == Paired(<<>>)
BY DEF Paired, TimedAt

-----------------------------------------------------------------------------
(* The inductive invariant.  What follows the prompt is what was predicted, *)
(* and none of it ends the text: a step that predicts the end completes.    *)

DecodeTyped ==
  /\ options \in Options
  /\ tokens \in Seq(Going) /\ next \in Vocab
  /\ index \in 0..LoopCount
  /\ rows \subseteq 1..index
  /\ ended \in {"no", "failed", "completed", "stopped", "exhausted"}
  /\ heard \in Seq(Vocab)

TokensInStep ==
  /\ Len(tokens) >= PromptLength /\ Len(tokens) >= index + 1
  /\ Len(tokens) = PromptLength \/ (Len(tokens) = index + 1 /\ Len(tokens) <= MaxContext - 1)
  /\ \E i \in 1..PromptLength : tokens[i] = StartOfTranscript

TokensAreHeard ==
  /\ Len(tokens) - PromptLength <= Len(heard)
  /\ \A k \in 1..(Len(tokens) - PromptLength) : tokens[PromptLength + k] = heard[k]
  /\ ended = "no" => Len(heard) = Len(tokens) - PromptLength

DecodeInd ==
  /\ DecodeTyped /\ TokensInStep /\ TokensAreHeard
  /\ ObservedIsFirstPrediction /\ TimesComeInPairs

\* The slot takes a time for a time, in the prompt's last place only.
LEMMA SlottedFacts ==
  ASSUME DecodeInd
  PROVE  /\ Slotted \in Seq(Going) /\ Len(Slotted) = Len(tokens)
         /\ \A i \in 1..Len(tokens) :
              \/ Slotted[i] = tokens[i]
              \/ i = PromptLength /\ IsTime(tokens[i]) /\ IsTime(Slotted[i])
<1>1. tokens \in Seq(Going) /\ next \in Vocab
  BY DEF DecodeInd, DecodeTyped
<1>2. CASE index + 1 = PromptLength /\ IsTime(tokens[index + 1]) /\ IsTime(next)
  <2>1. next \in Going
    BY <1>2, VocabFacts, <1>1 DEF IsTime, Going
  <2>2. index + 1 \in 1..Len(tokens)
    BY <1>1, <1>2, PromptFacts DEF DecodeInd, DecodeTyped, TokensInStep
  <2>3. Slotted = [tokens EXCEPT ![index + 1] = next]
    BY <1>2 DEF Slotted
  <2>4. QED
    BY <1>1, <1>2, <2>1, <2>2, <2>3, ExceptSeq
<1>3. CASE ~(index + 1 = PromptLength /\ IsTime(tokens[index + 1]) /\ IsTime(next))
  BY <1>1, <1>3 DEF Slotted
<1>4. QED
  BY <1>2, <1>3

LEMMA DecodeInit == Init => DecodeInd
<1> SUFFICES ASSUME Init PROVE DecodeInd
  OBVIOUS
<1>1. /\ options \in Options /\ tokens = Prompt /\ next = Last(Prompt) /\ index = 0
      /\ rows = {} /\ observed = None /\ ended = "no" /\ heard = <<>>
  BY DEF Init
<1>2. /\ Prompt \in Seq(Going) /\ PromptLength \in Nat /\ PromptLength >= 1
      /\ PromptLength = Len(Prompt)
      /\ \E i \in 1..PromptLength : Prompt[i] = StartOfTranscript
      /\ LoopCount \in Nat
  BY <1>1, PromptFacts DEF PromptLength
<1>3. DecodeTyped
  <2>1. next \in Vocab
    BY <1>1, <1>2 DEF Last, Going
  <2>2. QED
    BY <1>1, <1>2, <2>1 DEF DecodeTyped
<1>4. TokensInStep /\ TokensAreHeard
  BY <1>1, <1>2 DEF TokensInStep, TokensAreHeard
<1>5. ObservedIsFirstPrediction
  BY <1>1 DEF ObservedIsFirstPrediction
<1>6. TimesComeInPairs
  <2>1. ASSUME NEW begin \in EffectiveSampleBegin(tokens)
        PROVE  Paired(Sampled(tokens, begin))
    <3>1. tokens \in Seq(Vocab) /\ Len(tokens) = PromptLength
      BY <1>1, <1>2 DEF Going
    <3>2. begin \in Nat /\ begin = Len(tokens)
      BY <1>1, <1>2, <3>1, BeginFacts
    <3>3. Sampled(tokens, begin) = <<>>
      BY <1>1, <1>2, <3>2, SubSeqEmpty DEF Sampled
    <3>4. QED
      BY <3>3, NothingIsPaired
  <2>2. QED
    BY <2>1, PairsAreTold
<1>7. QED
  BY <1>3, <1>4, <1>5, <1>6 DEF DecodeInd

-----------------------------------------------------------------------------
(* Appending what the timestamp rules leave keeps the times in pairs. *)

LEMMA OneIsPaired == ASSUME NEW token \in Vocab PROVE Paired(<<token>>)
<1>1. \A i \in TimedAt(<<token>>) : i = 1
  BY DEF TimedAt
<1>2. QED
  BY <1>1 DEF Paired

LEMMA PairingIsKept ==
  ASSUME NEW sampled \in Seq(Vocab), sampled # <<>>, Paired(sampled),
         NEW token \in PairedLeft(sampled)
  PROVE  Paired(Append(sampled, token))
<1> DEFINE n == Len(sampled)
           more == Append(sampled, token)
           times == TimedAt(sampled)
           last == IsTime(Last(sampled))
           penultimate == n < 2 \/ IsTime(sampled[n - 1])
           lowest == IF times = {} THEN TimeBegin
                     ELSE sampled[Max(times)] + (IF last /\ ~penultimate THEN 0 ELSE 1)
<1>1. /\ n \in Nat /\ n >= 1 /\ Last(sampled) = sampled[n]
      /\ \A i \in 1..n : sampled[i] \in Nat
  <2>1. n \in Nat \ {0}
    BY EmptySeq
  <2>2. \A i \in 1..n : sampled[i] \in Vocab
    BY ElementOfSeq
  <2>3. Vocab \subseteq Nat
    BY VocabFacts
  <2>4. Last(sampled) = sampled[n]
    BY Zenon DEF Last
  <2>5. \A i \in 1..n : sampled[i] \in Nat
    BY <2>2, <2>3, Zenon
  <2>6. n \in Nat /\ n >= 1
    BY <2>1
  <2>7. QED
    BY <2>4, <2>5, <2>6, Zenon
<1>2. /\ token \in Vocab /\ (last /\ penultimate => ~IsTime(token))
      /\ last /\ ~penultimate => token >= EndToken
      /\ IsTime(token) => token >= lowest
  BY DEF PairedLeft, TimedAt
<1>3. token \in Nat /\ EndToken \in Nat /\ TimeBegin \in Nat /\ EndToken < TimeBegin
  BY <1>2, VocabFacts
<1>4. /\ more \in Seq(Vocab) /\ Len(more) = n + 1 /\ more[n + 1] = token
      /\ \A i \in 1..n : more[i] = sampled[i]
      /\ DOMAIN more = 1..(n + 1) /\ DOMAIN sampled = 1..n
  BY <1>1, <1>2
<1>5. /\ times \subseteq 1..n /\ \A i \in 1..n : i \in times <=> IsTime(sampled[i])
      /\ \A i \in 1..n : i \in TimedAt(more) <=> i \in times
      /\ n + 1 \in TimedAt(more) <=> IsTime(token)
      /\ TimedAt(more) \subseteq 1..(n + 1)
  BY <1>1, <1>4 DEF TimedAt
<1>6. /\ \A i, j \in times : i < j => sampled[i] <= sampled[j]
      /\ \A i, j \in times : i + 1 < j => sampled[i] < sampled[j]
      /\ \A i \in times : i > 1 /\ i - 1 \notin times => i = n \/ sampled[i + 1] >= EndToken
  BY DEF Paired
<1> HIDE DEF more, times
<1>7. ASSUME IsTime(token), NEW i \in times
      PROVE  sampled[i] <= token /\ (i < n => sampled[i] < token)
  <2>1. PICK top \in times : top = Max(times) /\ \A y \in times : y <= top
    <3>1. times \in SUBSET (0..n) /\ times # {}
      BY <1>1, <1>5, <1>7
    <3>2. QED
      BY <1>1, <3>1, MaxOfIndices
  <2>2. /\ i \in 1..n /\ top \in 1..n /\ i <= top /\ sampled[i] \in Nat /\ sampled[top] \in Nat
    BY <1>1, <1>5, <2>1
  <2>3. sampled[i] <= sampled[top]
    BY <1>6, <2>2, <2>1
  <2>4. CASE last
    <3>1. ~penultimate /\ n >= 2 /\ ~IsTime(sampled[n - 1])
      BY <1>1, <1>2, <1>7, <2>4
    <3>2. top = n
      <4>1. n \in times
        BY <1>1, <1>5, <2>4
      <4>2. QED
        BY <1>1, <2>1, <2>2, <4>1
    <3>3. token >= sampled[top]
      BY <1>2, <1>7, <2>1, <2>2, <2>4, <3>1
    <3>4. i < n => sampled[i] < sampled[top]
      <4>1. i # n - 1
        BY <1>1, <1>5, <3>1
      <4>2. i < n => i + 1 < top
        BY <1>1, <2>2, <3>2, <4>1
      <4>3. QED
        BY <1>6, <2>1, <4>2
    <3>5. QED
      BY <1>3, <2>2, <2>3, <3>3, <3>4
  <2>5. CASE ~last
    <3>1. token >= sampled[top] + 1
      BY <1>2, <1>7, <2>1, <2>2, <2>5
    <3>2. QED
      BY <1>3, <2>2, <2>3, <3>1
  <2>6. QED
    BY <2>4, <2>5
<1> HIDE DEF last, penultimate, lowest
<1>8. ASSUME NEW i \in TimedAt(more), NEW j \in TimedAt(more), i < j
      PROVE  more[i] <= more[j] /\ (i + 1 < j => more[i] < more[j])
  <2>1. i \in 1..n /\ i \in times /\ more[i] = sampled[i]
    BY <1>1, <1>4, <1>5, <1>8
  <2>2. CASE j \in 1..n
    <3>1. j \in times /\ more[j] = sampled[j]
      BY <1>4, <1>5, <2>2
    <3>2. QED
      BY <1>6, <1>8, <2>1, <3>1
  <2>3. CASE j = n + 1
    <3>1. IsTime(token) /\ more[j] = token
      BY <1>4, <1>5, <1>8, <2>3
    <3>2. i + 1 < j => i < n
      BY <1>1, <2>1, <2>3
    <3>3. QED
      BY <1>7, <2>1, <3>1, <3>2
  <2>4. QED
    BY <1>1, <1>5, <2>2, <2>3
<1>9. ASSUME NEW i \in TimedAt(more), i > 1, i - 1 \notin TimedAt(more)
      PROVE  i = n + 1 \/ more[i + 1] >= EndToken
  <2>1. CASE i = n + 1
    BY <2>1
  <2>2. CASE i = n
    <3>1. n \in times /\ n - 1 \notin times /\ n - 1 \in 1..n /\ n >= 2
      BY <1>1, <1>5, <1>9, <2>2
    <3>2. IsTime(sampled[n]) /\ ~IsTime(sampled[n - 1])
      BY <1>1, <1>5, <3>1
    <3>3. last /\ ~penultimate
      BY <1>1, <3>1, <3>2 DEF last, penultimate
    <3>4. QED
      BY <1>2, <1>4, <2>2, <3>3
  <2>3. CASE i \in 1..n /\ i # n
    <3>1. i \in times /\ i - 1 \notin times /\ i + 1 \in 1..n
      BY <1>1, <1>5, <1>9, <2>3
    <3>2. sampled[i + 1] >= EndToken
      BY <1>6, <1>9, <2>3, <3>1
    <3>3. QED
      BY <1>4, <3>1, <3>2
  <2>4. QED
    BY <1>1, <1>5, <2>1, <2>2, <2>3
<1>10. Paired(more)
  <2>1. Len(more) = n + 1
    BY <1>4
  <2>2. \A i, j \in TimedAt(more) : i + 1 < j => i < j
    BY <1>1, <1>5
  <2>3. \A i, j \in TimedAt(more) : i < j => more[i] <= more[j]
    BY <1>8
  <2>4. \A i, j \in TimedAt(more) : i + 1 < j => more[i] < more[j]
    BY <1>8, <2>2
  <2>5. QED
    BY <1>9, <2>1, <2>3, <2>4, Zenon DEF Paired
<1>11. QED
  BY <1>10 DEF more

\* A task token moves the place where the rules begin only to what follows it.
LEMMA BeginOfAppend ==
  ASSUME options \in Options, NEW seq \in Seq(Vocab), Len(seq) >= PromptLength,
         NEW token \in Vocab, NEW begin \in EffectiveSampleBegin(Append(seq, token))
  PROVE  begin \in EffectiveSampleBegin(seq) \/ begin = Len(seq) + 1
<1>1. /\ PromptLength \in Nat /\ Len(seq) \in Nat
      /\ Append(seq, token) \in Seq(Vocab) /\ Len(Append(seq, token)) = Len(seq) + 1
      /\ \A i \in 1..Len(seq) : Append(seq, token)[i] = seq[i]
  BY PromptFacts
<1>2. CASE ~Multilingual
  BY <1>2 DEF EffectiveSampleBegin
<1>3. CASE Multilingual
  <2> DEFINE now == {i \in 1..Min({3, Len(seq)}) : seq[i] \in TaskTokens}
             then == {i \in 1..Min({3, Len(Append(seq, token))}) :
                        Append(seq, token)[i] \in TaskTokens}
  <2>1. then # {} /\ begin = Max({Min(then), PromptLength})
    BY <1>3 DEF EffectiveSampleBegin
  <2>2. now # {} => Max({Min(now), PromptLength}) \in EffectiveSampleBegin(seq)
    BY <1>3 DEF EffectiveSampleBegin
  <2>3. /\ Min({3, Len(seq)}) = (IF 3 <= Len(seq) THEN 3 ELSE Len(seq))
        /\ Min({3, Len(Append(seq, token))}) = (IF 3 <= Len(seq) + 1 THEN 3 ELSE Len(seq) + 1)
    BY <1>1, MinOfTwo
  <2>4. /\ now \in SUBSET Nat /\ then \in SUBSET Nat
        /\ \A i \in Nat : i \in now => i \in then
        /\ \A i \in Nat : i \in then => i \in now \/ i = Len(seq) + 1
        /\ \A i \in now : i <= Len(seq)
    <3>1. PICK low, high \in Nat :
            /\ low = Min({3, Len(seq)}) /\ high = Min({3, Len(Append(seq, token))})
            /\ low <= Len(seq) /\ low <= high /\ \A i \in 1..high : i \in 1..low \/ i = Len(seq) + 1
      BY <1>1, <2>3
    <3>2. /\ now = {i \in 1..low : seq[i] \in TaskTokens}
          /\ then = {i \in 1..high : Append(seq, token)[i] \in TaskTokens}
      BY <3>1
    <3> HIDE DEF now, then
    <3>3. \A i \in 1..low : i \in 1..high /\ Append(seq, token)[i] = seq[i] /\ i <= Len(seq)
      BY <1>1, <3>1
    <3>4. /\ now \in SUBSET Nat /\ then \in SUBSET Nat
          /\ \A i \in now : i <= Len(seq)
      BY <3>1, <3>2, <3>3
    <3>5. \A i \in Nat : i \in now => i \in then
      BY <3>2, <3>3
    <3>6. \A i \in Nat : i \in then => i \in now \/ i = Len(seq) + 1
      BY <3>1, <3>2, <3>3
    <3>7. QED
      BY <3>4, <3>5, <3>6
  <2> HIDE DEF now, then
  <2>5. PICK first \in then : first = Min(then) /\ \A i \in then : first <= i
    BY <2>1, <2>4, MinOfNaturals
  <2>6. CASE first \in now
    <3>1. Min(now) \in now /\ \A i \in now : Min(now) <= i
      BY <2>4, <2>6, MinOfNaturals
    <3>2. Min(now) = first
      <4>1. Min(now) \in Nat /\ first \in Nat /\ Min(now) <= first /\ Min(now) \in then
        BY <2>4, <2>6, <3>1
      <4>2. QED
        BY <2>5, <4>1
    <3>3. QED
      BY <2>1, <2>2, <2>5, <2>6, <3>2
  <2>7. CASE first = Len(seq) + 1
    BY <1>1, <2>1, <2>5, <2>7, MaxOfTwo
  <2>8. QED
    BY <2>4, <2>5, <2>6, <2>7
<1>4. QED
  BY <1>2, <1>3

LEMMA LeftIsPaired ==
  ASSUME options \in Options, NEW seq \in Seq(Vocab), Len(seq) >= PromptLength,
         ~options.withoutTimestamps,
         NEW token \in Left(seq), NEW begin \in EffectiveSampleBegin(seq),
         Paired(Sampled(seq, begin))
  PROVE  Paired(Append(Sampled(seq, begin), token))
<1>1. begin \in Nat /\ begin <= Len(seq) /\ Len(seq) \in Nat
  BY BeginFacts
<1>2. \A b \in EffectiveSampleBegin(seq) : b = begin
  BY DEF EffectiveSampleBegin
<1>3. (CHOOSE b \in EffectiveSampleBegin(seq) : TRUE) = begin
  BY <1>2
<1>4. token \in TimestampRulesLeft(seq)
  BY DEF Left
<1>5. token \in (IF begin = Len(seq) THEN Vocab ELSE PairedLeft(Sampled(seq, begin)))
  <2>1. EffectiveSampleBegin(seq) # {} /\ ~(begin > Len(seq))
    BY <1>1
  <2>2. PICK chosen : chosen = CHOOSE b \in EffectiveSampleBegin(seq) : TRUE
    OBVIOUS
  <2>3. chosen = begin
    BY <1>3, <2>2
  <2>4. TimestampRulesLeft(seq) =
          IF EffectiveSampleBegin(seq) = {} \/ chosen > Len(seq) THEN Vocab
          ELSE (IF chosen = Len(seq) THEN Vocab
                ELSE PairedLeft(SubSeq(seq, chosen + 1, Len(seq)))) \ {NoTimestamps}
    BY <2>2, Zenon DEF TimestampRulesLeft
  <2>5. token \in (IF begin = Len(seq) THEN Vocab
                   ELSE PairedLeft(SubSeq(seq, begin + 1, Len(seq)))) \ {NoTimestamps}
    BY <1>4, <2>1, <2>3, <2>4, Zenon
  <2>6. QED
    BY <2>5, Zenon DEF Sampled
<1>6. CASE begin = Len(seq)
  <2>1. Sampled(seq, begin) = <<>>
    BY <1>1, <1>6, SubSeqEmpty DEF Sampled
  <2>2. Append(Sampled(seq, begin), token) = <<token>>
    BY <2>1
  <2>3. QED
    BY <1>5, <1>6, <2>2, OneIsPaired
<1>7. CASE begin # Len(seq)
  <2>1. Sampled(seq, begin) \in Seq(Vocab) /\ Sampled(seq, begin) # <<>>
    <3>1. begin + 1 \in Int /\ Len(seq) \in Int /\ \A i \in (begin + 1)..Len(seq) : seq[i] \in Vocab
      BY <1>1
    <3>2. /\ SubSeq(seq, begin + 1, Len(seq)) \in Seq(Vocab)
          /\ Len(SubSeq(seq, begin + 1, Len(seq))) = Len(seq) - begin
      BY <1>1, <1>7, <3>1, SubSeqProperties
    <3>3. Len(seq) - begin > 0 /\ Len(<<>>) = 0
      BY <1>1, <1>7
    <3>4. Sampled(seq, begin) \in Seq(Vocab) /\ Len(Sampled(seq, begin)) = Len(seq) - begin
      BY <3>2, Zenon DEF Sampled
    <3>5. Sampled(seq, begin) # <<>>
      BY <3>3, <3>4
    <3>6. QED
      BY <3>4, <3>5
  <2>2. QED
    BY <1>5, <1>7, <2>1, PairingIsKept
<1>8. QED
  BY <1>6, <1>7

LEMMA SampledOfAppend ==
  ASSUME NEW seq \in Seq(Vocab), NEW token \in Vocab, NEW begin \in 0..Len(seq)
  PROVE  Sampled(Append(seq, token), begin) = Append(Sampled(seq, begin), token)
<1> DEFINE more == Append(seq, token)
           n == Len(seq)
<1>1. /\ n \in Nat /\ begin \in Nat /\ begin <= n /\ more \in Seq(Vocab) /\ Len(more) = n + 1
      /\ \A i \in 1..n : more[i] = seq[i] /\ seq[i] \in Vocab
      /\ more[n + 1] = token
  OBVIOUS
<1> HIDE DEF more, n
<1>2. /\ SubSeq(seq, begin + 1, n) \in Seq(Vocab) /\ Len(SubSeq(seq, begin + 1, n)) = n - begin
      /\ \A i \in 1..(n - begin) : SubSeq(seq, begin + 1, n)[i] = seq[begin + i]
  <2>1. begin + 1 \in Int /\ n \in Int /\ \A i \in (begin + 1)..n : seq[i] \in Vocab
    BY <1>1
  <2>2. /\ SubSeq(seq, begin + 1, n) \in Seq(Vocab)
        /\ Len(SubSeq(seq, begin + 1, n)) = IF begin + 1 <= n THEN n - (begin + 1) + 1 ELSE 0
        /\ \A i \in 1..(n - (begin + 1) + 1) :
             SubSeq(seq, begin + 1, n)[i] = seq[(begin + 1) + i - 1]
    BY <2>1, SubSeqProperties
  <2>3. QED
    BY <1>1, <2>2
<1>3. /\ SubSeq(more, begin + 1, n + 1) \in Seq(Vocab)
      /\ Len(SubSeq(more, begin + 1, n + 1)) = n + 1 - begin
      /\ \A i \in 1..(n + 1 - begin) : SubSeq(more, begin + 1, n + 1)[i] = more[begin + i]
  <2>1. begin + 1 \in Int /\ n + 1 \in Int /\ \A i \in (begin + 1)..(n + 1) : more[i] \in Vocab
    BY <1>1
  <2>2. /\ SubSeq(more, begin + 1, n + 1) \in Seq(Vocab)
        /\ Len(SubSeq(more, begin + 1, n + 1)) =
             IF begin + 1 <= n + 1 THEN (n + 1) - (begin + 1) + 1 ELSE 0
        /\ \A i \in 1..((n + 1) - (begin + 1) + 1) :
             SubSeq(more, begin + 1, n + 1)[i] = more[(begin + 1) + i - 1]
    BY <2>1, SubSeqProperties
  <2>3. QED
    BY <1>1, <2>2
<1>4. /\ Append(SubSeq(seq, begin + 1, n), token) \in Seq(Vocab)
      /\ Len(Append(SubSeq(seq, begin + 1, n), token)) = n + 1 - begin
      /\ \A i \in 1..(n + 1 - begin) :
           Append(SubSeq(seq, begin + 1, n), token)[i] = more[begin + i]
  <2>1. PICK part \in Seq(Vocab) : part = SubSeq(seq, begin + 1, n)
    BY <1>2
  <2>2. /\ Append(part, token) \in Seq(Vocab) /\ Len(Append(part, token)) = Len(part) + 1
        /\ \A i \in 1..Len(part) : Append(part, token)[i] = part[i]
        /\ Append(part, token)[Len(part) + 1] = token
    OBVIOUS
  <2>3. Len(part) = n - begin /\ \A i \in 1..(n - begin) : part[i] = more[begin + i]
    BY <1>1, <1>2, <2>1
  <2>4. \A i \in 1..(n + 1 - begin) : i \in 1..(n - begin) \/ i = n - begin + 1
    BY <1>1
  <2>5. begin + (n - begin + 1) = n + 1 /\ n - begin + 1 = n + 1 - begin
    BY <1>1
  <2>6. QED
    BY <1>1, <2>1, <2>2, <2>3, <2>4, <2>5
<1>5. SubSeq(more, begin + 1, n + 1) = Append(SubSeq(seq, begin + 1, n), token)
  BY <1>3, <1>4, SeqEqual
<1>6. QED
  BY <1>1, <1>5 DEF Sampled, more, n

-----------------------------------------------------------------------------
(* The steps. *)

LEMMA PairsKept ==
  ASSUME NEW seq, tokens' = seq, UNCHANGED options,
         ~options.withoutTimestamps =>
           \A begin \in EffectiveSampleBegin(seq) : Paired(Sampled(seq, begin))
  PROVE  TimesComeInPairs'
<1>1. PromptLength' = PromptLength
  BY DEF PromptLength, Prompt
<1>2. EffectiveSampleBegin(tokens)' = EffectiveSampleBegin(seq)
  BY <1>1, Zenon DEF EffectiveSampleBegin
<1>3. \A begin : Paired(Sampled(tokens, begin))' = Paired(Sampled(seq, begin))
  <2> TAKE begin
  <2>1. Sampled(tokens, begin)' = Sampled(seq, begin)
    BY DEF Sampled
  <2>2. TimedAt(Sampled(tokens, begin))' = TimedAt(Sampled(seq, begin))
    BY <2>1, Zenon DEF TimedAt
  <2>3. QED
    BY <2>1, <2>2, Zenon DEF Paired
<1>4. TimesComeInPairs' = (~options'.withoutTimestamps =>
                             \A begin \in EffectiveSampleBegin(tokens)' :
                               Paired(Sampled(tokens, begin))')
  BY Zenon DEF TimesComeInPairs, Paired, Sampled, TimedAt
<1>5. QED
  BY <1>2, <1>3, <1>4, Zenon

\* A time in the slot is before what the rules apply to.
LEMMA SlottedIsPaired ==
  ASSUME DecodeInd
  PROVE  ~options.withoutTimestamps =>
           \A begin \in EffectiveSampleBegin(Slotted) : Paired(Sampled(Slotted, begin))
<1>1. /\ options \in Options /\ tokens \in Seq(Vocab) /\ Slotted \in Seq(Vocab)
      /\ Len(tokens) >= PromptLength /\ Len(Slotted) = Len(tokens) /\ Len(tokens) \in Nat
      /\ PromptLength \in Nat
  <2>1. tokens \in Seq(Going) /\ Slotted \in Seq(Going) /\ Going \subseteq Vocab
    BY SlottedFacts DEF DecodeInd, DecodeTyped, Going
  <2>2. options \in Options /\ Len(tokens) >= PromptLength
    BY DEF DecodeInd, DecodeTyped, TokensInStep
  <2>3. tokens \in Seq(Vocab) /\ Slotted \in Seq(Vocab)
    BY <2>1, SeqMonotonic
  <2>4. QED
    BY <2>1, <2>2, <2>3, SlottedFacts, PromptFacts
<1>2. \A i \in 1..Len(tokens) : Slotted[i] \in TaskTokens <=> tokens[i] \in TaskTokens
  <2>1. ASSUME NEW i \in 1..Len(tokens) PROVE Slotted[i] \in TaskTokens <=> tokens[i] \in TaskTokens
    <3>1. CASE Slotted[i] = tokens[i]
      BY <3>1
    <3>2. CASE IsTime(tokens[i]) /\ IsTime(Slotted[i])
      <4>1. tokens[i] \in Nat /\ Slotted[i] \in Nat
        <5>1. tokens[i] \in Vocab /\ Slotted[i] \in Vocab
          BY <1>1, ElementOfSeq
        <5>2. QED
          BY <5>1, VocabFacts
      <4>2. tokens[i] \notin TaskTokens /\ Slotted[i] \notin TaskTokens
        BY <3>2, <4>1, VocabFacts DEF IsTime
      <4>3. QED
        BY <4>2
    <3>3. QED
      BY <3>1, <3>2, SlottedFacts
  <2>2. QED
    BY <2>1
<1>3. EffectiveSampleBegin(Slotted) = EffectiveSampleBegin(tokens)
  <2>1. Min({3, Len(tokens)}) \in Nat /\ Min({3, Len(tokens)}) <= Len(tokens)
    BY <1>1, MinOfTwo
  <2>2. PICK upto \in Nat : upto = Min({3, Len(tokens)}) /\ upto <= Len(tokens)
    BY <2>1
  <2>3. \A i \in 1..upto : i \in 1..Len(tokens)
    BY <1>1, <2>2
  <2>4. {i \in 1..upto : Slotted[i] \in TaskTokens} = {i \in 1..upto : tokens[i] \in TaskTokens}
    BY <1>2, <2>3
  <2>5. QED
    BY <1>1, <2>2, <2>4 DEF EffectiveSampleBegin
<1>4. ASSUME ~options.withoutTimestamps, NEW begin \in EffectiveSampleBegin(tokens)
      PROVE  Paired(Sampled(Slotted, begin))
  <2>1. begin \in Nat /\ begin >= PromptLength
    BY <1>1, BeginFacts
  <2>2. \A i \in (begin + 1)..Len(tokens) : Slotted[i] = tokens[i]
    BY <1>1, <2>1, SlottedFacts
  <2>3. /\ begin + 1 \in Int /\ Len(tokens) \in Int
        /\ \A i \in (begin + 1)..Len(tokens) : tokens[i] \in Vocab /\ Slotted[i] \in Vocab
    BY <1>1, <2>1
  <2>4. PICK first \in Int, n \in Int : first = begin + 1 /\ n = Len(tokens)
    BY <2>3
  <2>5. /\ SubSeq(tokens, first, n) \in Seq(Vocab) /\ SubSeq(Slotted, first, n) \in Seq(Vocab)
        /\ Len(SubSeq(tokens, first, n)) = IF first <= n THEN n - first + 1 ELSE 0
        /\ Len(SubSeq(Slotted, first, n)) = IF first <= n THEN n - first + 1 ELSE 0
        /\ \A i \in 1..(n - first + 1) : SubSeq(tokens, first, n)[i] = tokens[first + i - 1]
        /\ \A i \in 1..(n - first + 1) : SubSeq(Slotted, first, n)[i] = Slotted[first + i - 1]
    BY <2>3, <2>4, SubSeqProperties
  <2>6. \A i \in 1..(n - first + 1) : first + i - 1 \in first..n
    OBVIOUS
  <2>7. \A i \in first..n : Slotted[i] = tokens[i]
    BY <2>2, <2>4
  <2>8. \A i \in 1..Len(SubSeq(tokens, first, n)) : i \in 1..(n - first + 1)
    BY <2>5
  <2>9. SubSeq(Slotted, first, n) = SubSeq(tokens, first, n)
    BY <2>5, <2>6, <2>7, <2>8, SeqEqual
  <2>10. Sampled(Slotted, begin) = Sampled(tokens, begin)
    BY <1>1, <2>4, <2>9, Zenon DEF Sampled
  <2>11. Paired(Sampled(tokens, begin))
    BY <1>4, PairsAreTold DEF DecodeInd
  <2>12. QED
    BY <2>10, <2>11
<1>5. QED
  BY <1>3, <1>4

\* The first language predicted past the prompt is latched.
LEMMA PredictObserves ==
  ASSUME DecodeInd, NEW token, Predict(token)
  PROVE  /\ ObservedIsFirstPrediction'
         /\ token \in Vocab /\ heard' \in Seq(Vocab) /\ next' = token /\ UNCHANGED options
         /\ IsPrefill => heard' = heard
         /\ ~IsPrefill => /\ heard' = Append(heard, token) /\ Len(heard') = Len(heard) + 1
                          /\ \A k \in 1..Len(heard) : heard'[k] = heard[k]
                          /\ heard'[Len(heard) + 1] = token
<1>1. /\ token \in Vocab /\ next' = token /\ UNCHANGED options /\ heard \in Seq(Vocab)
      /\ heard' = IF IsPrefill THEN heard ELSE Append(heard, token)
      /\ observed' = IF ~IsPrefill /\ observed = None /\ token \in Languages
                       THEN {token} ELSE observed
  BY VocabAssumption DEF Predict, DecodeInd, DecodeTyped
<1> DEFINE spoken == {i \in DOMAIN heard : heard[i] \in Languages}
<1>2. /\ observed = (IF spoken = {} THEN None ELSE {heard[Min(spoken)]})
      /\ DOMAIN heard = 1..Len(heard) /\ Len(heard) \in Nat
  BY <1>1 DEF DecodeInd, ObservedIsFirstPrediction
<1>3. CASE IsPrefill
  <2>1. heard' = heard /\ observed' = observed
    BY <1>1, <1>3
  <2>2. ObservedIsFirstPrediction'
    BY <2>1 DEF DecodeInd, ObservedIsFirstPrediction
  <2>3. QED
    BY <1>1, <1>3, <2>1, <2>2
<1>4. CASE ~IsPrefill
  <2>1. /\ heard' = Append(heard, token) /\ heard' \in Seq(Vocab) /\ Len(heard') = Len(heard) + 1
        /\ \A k \in 1..Len(heard) : heard'[k] = heard[k]
        /\ heard'[Len(heard) + 1] = token
        /\ DOMAIN heard' = 1..(Len(heard) + 1)
    BY <1>1, <1>4
  <2> DEFINE now == {i \in DOMAIN heard' : heard'[i] \in Languages}
  <2>2. /\ spoken \in SUBSET Nat /\ now \in SUBSET Nat
        /\ \A i \in spoken : i \in now /\ i <= Len(heard) /\ heard'[i] = heard[i]
        /\ \A i \in now : i \in spoken \/ (i = Len(heard) + 1 /\ token \in Languages)
        /\ token \in Languages => Len(heard) + 1 \in now
    BY <1>2, <2>1
  <2>3. observed' = IF observed = None /\ token \in Languages THEN {token} ELSE observed
    BY <1>1, <1>4
  <2> HIDE DEF spoken, now
  <2>4. observed' = IF now = {} THEN None ELSE {heard'[Min(now)]}
    <3>1. CASE spoken # {}
      <4>1. Min(spoken) \in spoken /\ \A i \in spoken : Min(spoken) <= i
        BY <2>2, <3>1, MinOfNaturals
      <4>2. now # {}
        BY <2>2, <3>1
      <4>3. Min(now) \in now /\ \A i \in now : Min(now) <= i
        BY <2>2, <4>2, MinOfNaturals
      <4>4. Min(now) = Min(spoken)
        <5>1. Min(spoken) \in now /\ Min(spoken) \in Nat /\ Min(spoken) <= Len(heard)
          BY <2>2, <4>1
        <5>2. Min(now) \in Nat /\ Min(now) <= Min(spoken)
          BY <2>2, <4>3, <5>1
        <5>3. Min(now) \in spoken
          BY <1>2, <2>2, <4>3, <5>1, <5>2
        <5>4. QED
          BY <4>1, <5>1, <5>2, <5>3
      <4>5. observed = {heard[Min(spoken)]} /\ observed # None
        BY <1>2, <3>1 DEF None
      <4>6. QED
        BY <2>2, <2>3, <4>1, <4>2, <4>4, <4>5
    <3>2. CASE spoken = {} /\ token \in Languages
      <4>1. now = {Len(heard) + 1}
        BY <1>2, <2>2, <3>2
      <4>2. Min(now) \in now
        BY <2>2, <4>1, MinOfNaturals
      <4>3. QED
        BY <1>2, <2>1, <2>3, <3>2, <4>1, <4>2
    <3>3. CASE spoken = {} /\ token \notin Languages
      BY <1>2, <2>2, <2>3, <3>3
    <3>4. QED
      BY <3>1, <3>2, <3>3
  <2>5. ObservedIsFirstPrediction'
    BY <2>4 DEF ObservedIsFirstPrediction, now
  <2>6. QED
    BY <1>1, <1>4, <2>1, <2>5
<1>5. QED
  BY <1>3, <1>4

\* What was decoded past the slot stays, whatever the slot takes.
LEMMA SlottedSteps ==
  ASSUME DecodeInd, UNCHANGED options, tokens' = Slotted, UNCHANGED <<index, rows>>,
         heard' \in Seq(Vocab), Len(heard) <= Len(heard'),
         \A k \in 1..Len(heard) : heard'[k] = heard[k],
         next' \in Vocab, ended' \in {"failed", "completed"}, ObservedIsFirstPrediction'
  PROVE  DecodeInd'
<1>1. /\ options \in Options /\ tokens \in Seq(Going) /\ index \in 0..LoopCount
      /\ rows \subseteq 1..index /\ heard \in Seq(Vocab)
      /\ Len(tokens) \in Nat /\ Len(heard) \in Nat
  BY DEF DecodeInd, DecodeTyped
<1>2. PromptLength' = PromptLength /\ LoopCount' = LoopCount /\ PromptLength \in Nat
  BY <1>1, PromptFacts DEF PromptLength, Prompt, LoopCount
<1>3. /\ tokens' \in Seq(Going) /\ Len(tokens') = Len(tokens)
      /\ \A i \in 1..Len(tokens) : i > PromptLength => tokens'[i] = tokens[i]
  BY <1>1, <1>2, SlottedFacts
<1>4. DecodeTyped'
  BY <1>1, <1>2, <1>3 DEF DecodeTyped
<1>5. TokensInStep'
  <2>1. PICK i \in 1..PromptLength : tokens[i] = StartOfTranscript
    BY DEF DecodeInd, TokensInStep
  <2>2. ~IsTime(tokens[i]) /\ i \in 1..Len(tokens)
    BY <1>1, <1>2, <2>1, VocabFacts DEF IsTime, DecodeInd, TokensInStep, Going
  <2>3. tokens'[i] = StartOfTranscript
    BY <2>1, <2>2, SlottedFacts
  <2>4. QED
    BY <1>2, <1>3, <2>1, <2>3 DEF DecodeInd, TokensInStep
<1>6. TokensAreHeard'
  <2>1. ASSUME NEW k \in 1..(Len(tokens) - PromptLength)
        PROVE  tokens'[PromptLength + k] = heard'[k]
    <3>1. tokens[PromptLength + k] = heard[k] /\ k \in 1..Len(heard)
      BY <1>1, <1>2 DEF DecodeInd, TokensAreHeard
    <3>2. PromptLength + k \in 1..Len(tokens) /\ PromptLength + k > PromptLength
      BY <1>1, <1>2
    <3>3. QED
      BY <1>3, <3>1, <3>2
  <2>2. Len(tokens) - PromptLength <= Len(heard')
    BY <1>1, <1>2 DEF DecodeInd, TokensAreHeard
  <2>3. QED
    BY <1>2, <1>3, <2>1, <2>2 DEF TokensAreHeard
<1>7. TimesComeInPairs'
  BY SlottedIsPaired, PairsKept
<1>8. QED
  BY <1>4, <1>5, <1>6, <1>7 DEF DecodeInd

LEMMA StepFailsInd == DecodeInd /\ StepFails => DecodeInd'
<1> SUFFICES ASSUME DecodeInd, StepFails PROVE DecodeInd'
  OBVIOUS
<1>1. /\ tokens' = Slotted /\ ended' = "failed"
      /\ UNCHANGED <<options, next, index, rows, observed, heard>>
  BY DEF StepFails
<1>2. heard \in Seq(Vocab) /\ next \in Vocab /\ Len(heard) \in Nat
  BY DEF DecodeInd, DecodeTyped
<1>3. ObservedIsFirstPrediction'
  BY <1>1 DEF DecodeInd, ObservedIsFirstPrediction
<1>4. QED
  BY <1>1, <1>2, <1>3, SlottedSteps

LEMMA CompleteInd ==
  ASSUME DecodeInd, NEW token, Complete(token)
  PROVE  DecodeInd'
<1>1. /\ Predict(token) /\ tokens' = Slotted /\ ended' = "completed" /\ UNCHANGED <<index, rows>>
  BY DEF Complete
<1>2. /\ ObservedIsFirstPrediction' /\ next' \in Vocab /\ UNCHANGED options
      /\ heard' \in Seq(Vocab) /\ Len(heard) \in Nat
  BY <1>1, PredictObserves DEF DecodeInd, DecodeTyped
<1>3. Len(heard) <= Len(heard') /\ \A k \in 1..Len(heard) : heard'[k] = heard[k]
  <2>1. CASE IsPrefill
    BY <1>1, <1>2, <2>1, PredictObserves
  <2>2. CASE ~IsPrefill
    BY <1>1, <1>2, <2>2, PredictObserves
  <2>3. QED
    BY <2>1, <2>2
<1>4. QED
  BY <1>1, <1>2, <1>3, SlottedSteps

\* A step that goes on pushes what it predicted, which does not end the text.
LEMMA ContinueInd ==
  ASSUME DecodeInd, NEW token, NEW wrote, NEW verdict, Continue(token, wrote, verdict)
  PROVE  DecodeInd'
<1>1. /\ Predict(token) /\ token # EndToken
      /\ tokens' = (IF IsPrefill THEN Slotted ELSE Append(Slotted, token))
      /\ rows' \subseteq rows \cup {index + 1} /\ index' = index + 1
      /\ ended' \in {"no", "failed", "stopped"} /\ ended = "no" /\ index < LoopCount
      /\ ~(Len(Slotted) >= MaxContext - 1)
  BY DEF Continue, Completes, Predict, Running
<1>2. /\ options \in Options /\ tokens \in Seq(Going) /\ index \in 0..LoopCount
      /\ rows \subseteq 1..index /\ heard \in Seq(Vocab)
      /\ Len(tokens) \in Nat /\ Len(heard) \in Nat
  BY DEF DecodeInd, DecodeTyped
<1>3. /\ ObservedIsFirstPrediction' /\ next' \in Vocab /\ token \in Going /\ UNCHANGED options
      /\ heard' \in Seq(Vocab)
  BY <1>1, PredictObserves DEF Going
<1>4. /\ PromptLength' = PromptLength /\ LoopCount' = LoopCount /\ PromptLength \in Nat
      /\ PromptLength >= 1 /\ LoopCount \in Nat /\ MaxContext - 1 \in Nat
  BY <1>2, <1>3, PromptFacts DEF PromptLength, Prompt, LoopCount
<1>5. /\ Slotted \in Seq(Going) /\ Len(Slotted) = Len(tokens)
      /\ \A i \in 1..Len(tokens) : i > PromptLength => Slotted[i] = tokens[i]
  BY <1>2, <1>4, SlottedFacts
<1>6. \E i \in 1..PromptLength : Slotted[i] = StartOfTranscript
  <2>1. PICK i \in 1..PromptLength : tokens[i] = StartOfTranscript
    BY DEF DecodeInd, TokensInStep
  <2>2. ~IsTime(tokens[i]) /\ i \in 1..Len(tokens)
    BY <1>2, <1>4, <2>1, VocabFacts DEF IsTime, DecodeInd, TokensInStep, Going
  <2>3. QED
    BY <2>1, <2>2, SlottedFacts
<1>7. /\ Len(tokens) >= PromptLength /\ Len(tokens) >= index + 1
      /\ Len(tokens) = PromptLength \/ Len(tokens) = index + 1
      /\ Len(heard) = Len(tokens) - PromptLength
      /\ \A k \in 1..(Len(tokens) - PromptLength) : tokens[PromptLength + k] = heard[k]
  BY <1>1 DEF DecodeInd, TokensInStep, TokensAreHeard
<1>8. rows' \subseteq 1..index' /\ index' \in 0..LoopCount'
  BY <1>1, <1>2, <1>4
<1>9. CASE IsPrefill
  <2>1. tokens' = Slotted /\ index + 1 < PromptLength /\ heard' = heard
    BY <1>1, <1>9, PredictObserves DEF IsPrefill
  <2>2. DecodeTyped'
    BY <1>1, <1>2, <1>3, <1>5, <1>8, <2>1 DEF DecodeTyped
  <2>3. TokensInStep'
    BY <1>1, <1>2, <1>4, <1>5, <1>6, <1>7, <2>1 DEF TokensInStep
  <2>4. TokensAreHeard'
    <3>1. Len(tokens) = PromptLength
      BY <1>2, <1>4, <1>7, <2>1
    <3>2. QED
      BY <1>2, <1>4, <1>5, <1>7, <2>1, <3>1 DEF TokensAreHeard
  <2>5. TimesComeInPairs'
    BY <1>3, <2>1, SlottedIsPaired, PairsKept
  <2>6. QED
    BY <1>3, <2>2, <2>3, <2>4, <2>5 DEF DecodeInd
<1>10. CASE ~IsPrefill
  <2>1. /\ tokens' = Append(Slotted, token) /\ index + 1 >= PromptLength
        /\ heard' = Append(heard, token) /\ Len(heard') = Len(heard) + 1
        /\ \A k \in 1..Len(heard) : heard'[k] = heard[k]
        /\ heard'[Len(heard) + 1] = token
    BY <1>1, <1>2, <1>4, <1>10, PredictObserves DEF IsPrefill
  <2>2. /\ tokens' \in Seq(Going) /\ Len(tokens') = Len(tokens) + 1
        /\ \A i \in 1..Len(tokens) : tokens'[i] = Slotted[i]
        /\ tokens'[Len(tokens) + 1] = token
    BY <1>3, <1>5, <2>1, AppendProperties
  <2>3. Len(tokens) = index + 1
    BY <1>2, <1>4, <1>7, <2>1
  <2>4. DecodeTyped'
    BY <1>1, <1>2, <1>3, <1>8, <2>2 DEF DecodeTyped
  <2>5. TokensInStep'
    <3>1. \E i \in 1..PromptLength : tokens'[i] = StartOfTranscript
      BY <1>2, <1>4, <1>6, <1>7, <2>2
    <3>2. QED
      BY <1>1, <1>2, <1>4, <1>5, <1>7, <2>2, <2>3, <3>1 DEF TokensInStep
  <2>6. TokensAreHeard'
    <3>1. ASSUME NEW k \in 1..(Len(tokens') - PromptLength)
          PROVE  tokens'[PromptLength + k] = heard'[k]
      <4>1. CASE k \in 1..(Len(tokens) - PromptLength)
        <5>1. PromptLength + k \in 1..Len(tokens) /\ PromptLength + k > PromptLength
              /\ k \in 1..Len(heard)
          BY <1>2, <1>4, <1>7, <4>1
        <5>2. QED
          BY <1>5, <1>7, <2>1, <2>2, <4>1, <5>1
      <4>2. CASE k \notin 1..(Len(tokens) - PromptLength)
        <5>1. k \in Nat /\ k >= 1 /\ k <= Len(tokens) + 1 - PromptLength
          BY <1>2, <1>4, <2>2
        <5>2. PICK p \in Nat, t \in Nat, h \in Nat :
                p = PromptLength /\ t = Len(tokens) /\ h = Len(heard)
          BY <1>2, <1>4
        <5>3. t >= p /\ h = t - p /\ k <= t + 1 - p /\ k \notin 1..(t - p)
          BY <1>7, <4>2, <5>1, <5>2
        <5>4. k = h + 1 /\ p + k = t + 1
          BY <5>1, <5>2, <5>3
        <5>5. k = Len(heard) + 1 /\ PromptLength + k = Len(tokens) + 1
          BY <5>2, <5>4
        <5>6. QED
          BY <2>1, <2>2, <5>5
      <4>3. QED
        BY <4>1, <4>2
    <3>2. Len(heard') = Len(tokens') - PromptLength
      BY <1>2, <1>4, <1>7, <2>1, <2>2
    <3>3. Len(tokens') \in Nat /\ Len(heard') \in Nat
      BY <1>2, <2>1, <2>2
    <3>4. QED
      BY <1>4, <3>1, <3>2, <3>3 DEF TokensAreHeard
  <2>7. TimesComeInPairs'
    <3>1. Slotted \in Seq(Vocab) /\ token \in Vocab /\ Len(Slotted) >= PromptLength
      <4>1. Going \subseteq Vocab
        BY DEF Going
      <4>2. QED
        BY <1>3, <1>5, <1>7, <4>1, SeqMonotonic
    <3>2. token \in Left(Slotted)
      BY <1>1 DEF Predict
    <3>3. ASSUME ~options.withoutTimestamps,
                 NEW begin \in EffectiveSampleBegin(Append(Slotted, token))
          PROVE  Paired(Sampled(Append(Slotted, token), begin))
      <4>1. CASE begin \in EffectiveSampleBegin(Slotted)
        <5>1. Paired(Sampled(Slotted, begin))
          BY <3>3, <4>1, SlottedIsPaired
        <5>2. Paired(Append(Sampled(Slotted, begin), token))
          BY <1>2, <3>1, <3>2, <3>3, <4>1, <5>1, LeftIsPaired
        <5>3. begin \in 0..Len(Slotted)
          BY <1>2, <1>5, <3>1, <4>1, BeginFacts
        <5>4. QED
          BY <3>1, <5>2, <5>3, SampledOfAppend
      <4>2. CASE begin = Len(Slotted) + 1
        <5>1. /\ Len(Append(Slotted, token)) = Len(Slotted) + 1 /\ Len(Slotted) \in Nat
          BY <3>1
        <5>2. Len(Slotted) + 1 + 1 \in Int /\ Len(Slotted) + 1 \in Int
              /\ Len(Slotted) + 1 < Len(Slotted) + 1 + 1
          BY <5>1
        <5>3. SubSeq(Append(Slotted, token), Len(Slotted) + 1 + 1, Len(Slotted) + 1) = <<>>
          BY <5>2, SubSeqEmpty
        <5>4. Sampled(Append(Slotted, token), begin) = <<>>
          BY <4>2, <5>1, <5>3 DEF Sampled
        <5>5. QED
          BY <5>4, NothingIsPaired
      <4>3. QED
        BY <1>2, <3>1, <4>1, <4>2, BeginOfAppend
    <3>4. QED
      BY <1>3, <2>1, <3>3, PairsKept
  <2>8. QED
    BY <1>3, <2>4, <2>5, <2>6, <2>7 DEF DecodeInd
<1>11. QED
  BY <1>9, <1>10

LEMMA DecodeStep == DecodeInd /\ [Next]_vars => DecodeInd'
<1> SUFFICES ASSUME DecodeInd, [Next]_vars PROVE DecodeInd'
  OBVIOUS
<1>1. ASSUME UNCHANGED <<options, tokens, next, index, rows, observed, heard>>,
             ended' = ended \/ ended' = "exhausted"
      PROVE  DecodeInd'
  <2>1. PromptLength' = PromptLength /\ LoopCount' = LoopCount
    BY <1>1 DEF PromptLength, Prompt, LoopCount
  <2>2. DecodeTyped' /\ TokensInStep'
    BY <1>1, <2>1 DEF DecodeInd, DecodeTyped, TokensInStep
  <2>3. TokensAreHeard'
    BY <1>1, <2>1 DEF DecodeInd, TokensAreHeard
  <2>4. ObservedIsFirstPrediction'
    BY <1>1 DEF DecodeInd, ObservedIsFirstPrediction
  <2>5. TimesComeInPairs'
    BY <1>1, PairsKept, PairsAreTold DEF DecodeInd
  <2>6. QED
    BY <2>2, <2>3, <2>4, <2>5 DEF DecodeInd
<1>2. CASE Next
  <2>1. CASE StepFails
    BY <2>1, StepFailsInd
  <2>2. ASSUME NEW token \in Sampleable, Complete(token) PROVE DecodeInd'
    BY <2>2, CompleteInd
  <2>3. ASSUME NEW token \in Sampleable, NEW wrote \in BOOLEAN,
               NEW verdict \in {"go", "stop", "fail"}, Continue(token, wrote, verdict)
        PROVE  DecodeInd'
    BY <2>3, ContinueInd
  <2>4. CASE Exhaust
    BY <1>1, <2>4 DEF Exhaust
  <2>5. QED
    BY <1>2, <2>1, <2>2, <2>3, <2>4 DEF Next
<1>3. CASE UNCHANGED vars
  BY <1>1, <1>3 DEF vars
<1>4. QED
  BY <1>2, <1>3

-----------------------------------------------------------------------------
(* What the invariant says of a result: it runs from the start of the      *)
(* transcript to the end of the text, which no step leaves among the       *)
(* tokens and the last one closes.                                         *)

LEMMA ResultFacts ==
  ASSUME DecodeInd
  PROVE  /\ Finalized \in Seq(Vocab) /\ Len(Finalized) = Len(tokens) + 1
         /\ \A i \in 1..Len(tokens) : Finalized[i] = tokens[i]
         /\ SotOffset \in 0..(Len(tokens) - 1)
         /\ Result \in Seq(Vocab) /\ Len(Result) = Len(tokens) + 1 - SotOffset
         /\ \A i \in 1..Len(Result) : Result[i] = Finalized[SotOffset + i]
<1>1. /\ tokens \in Seq(Going) /\ Len(tokens) \in Nat /\ Len(tokens) >= 1
      /\ PromptLength \in Nat /\ Len(tokens) >= PromptLength
  BY PromptFacts DEF DecodeInd, DecodeTyped, TokensInStep
<1>2. Going \subseteq Vocab /\ EndToken \in Vocab /\ EndToken \notin Going
  BY VocabFacts DEF Going
<1>3. tokens \in Seq(Vocab) /\ \A i \in 1..Len(tokens) : tokens[i] # EndToken
  BY <1>1, <1>2, SeqMonotonic, ElementOfSeq
<1>4. Finalized = Append(tokens, EndToken)
  <2>1. Last(tokens) = tokens[Len(tokens)]
    BY Zenon DEF Last
  <2>2. Last(tokens) # EndToken
    BY <1>1, <1>3, <2>1
  <2>3. QED
    BY <2>2 DEF Finalized
<1>5. /\ Finalized \in Seq(Vocab) /\ Len(Finalized) = Len(tokens) + 1
      /\ \A i \in 1..Len(tokens) : Finalized[i] = tokens[i]
      /\ Finalized[Len(tokens) + 1] = EndToken /\ DOMAIN Finalized = 1..(Len(tokens) + 1)
  BY <1>2, <1>3, <1>4, AppendProperties
<1>6. SotOffset \in 0..(Len(tokens) - 1)
  <2> DEFINE places == {i \in DOMAIN Finalized : Finalized[i] = StartOfTranscript}
  <2>1. PICK i \in 1..PromptLength : tokens[i] = StartOfTranscript
    BY DEF DecodeInd, TokensInStep
  <2>2. i \in 1..Len(tokens) /\ i \in places
    BY <1>1, <1>5, <2>1
  <2>3. places \in SUBSET Nat /\ \A j \in places : j >= 1
    BY <1>5
  <2>4. Min(places) \in places /\ Min(places) <= i
    BY <2>2, <2>3, MinOfNaturals
  <2> HIDE DEF places
  <2>5. Min(places) \in Nat /\ Min(places) >= 1 /\ Min(places) <= Len(tokens)
    <3>1. PICK m \in Nat : m = Min(places) /\ m >= 1 /\ m <= i
      BY <2>3, <2>4
    <3>2. i \in Nat /\ i <= Len(tokens)
      BY <1>1, <2>2
    <3>3. m <= Len(tokens)
      BY <1>1, <3>1, <3>2
    <3>4. QED
      BY <3>1, <3>3
  <2>6. SotOffset = Min(places) - 1
    BY Zenon DEF SotOffset, PositionOf, places
  <2>7. QED
    BY <1>1, <2>5, <2>6
<1>7. PositionOf(EndToken) = Len(tokens)
  <2> DEFINE places == {i \in DOMAIN Finalized : Finalized[i] = EndToken}
  <2>1. places = {Len(tokens) + 1}
    <3>1. \A i \in 1..(Len(tokens) + 1) : i \in 1..Len(tokens) \/ i = Len(tokens) + 1
      BY <1>1
    <3>2. Len(tokens) + 1 \in 1..(Len(tokens) + 1)
      BY <1>1
    <3>3. QED
      BY <1>3, <1>5, <3>1, <3>2
  <2>2. {Len(tokens) + 1} \in SUBSET Nat /\ {Len(tokens) + 1} # {}
    BY <1>1
  <2>3. Min({Len(tokens) + 1}) = Len(tokens) + 1
    BY <2>2, MinOfNaturals
  <2>4. PositionOf(EndToken) = Min(places) - 1
    BY Zenon DEF PositionOf
  <2> HIDE DEF places
  <2>5. Min(places) = Len(tokens) + 1
    BY <2>1, <2>3, Zenon
  <2>6. QED
    BY <1>1, <2>4, <2>5
<1>8. PICK first \in Int, n \in Int : first = SotOffset + 1 /\ n = Len(tokens) + 1
  BY <1>1, <1>6
<1>9. Result = SubSeq(Finalized, first, n)
  BY <1>7, <1>8 DEF Result
<1>10. first >= 1 /\ first <= n /\ \A i \in first..n : Finalized[i] \in Vocab
  BY <1>1, <1>5, <1>6, <1>8
<1>11. /\ Result \in Seq(Vocab) /\ Len(Result) = n - first + 1
       /\ \A i \in 1..(n - first + 1) : Result[i] = Finalized[first + i - 1]
  BY <1>9, <1>10, SubSeqProperties
<1>12. n - first + 1 = Len(tokens) + 1 - SotOffset
       /\ \A i \in 1..(n - first + 1) : first + i - 1 = SotOffset + i
  BY <1>1, <1>6, <1>8
<1>13. QED
  BY <1>5, <1>6, <1>11, <1>12

LEMMA DecodeIndHolds == DecodeInd => DecodeHolds
<1> SUFFICES ASSUME DecodeInd PROVE DecodeHolds
  OBVIOUS
<1>1. /\ options \in Options /\ tokens \in Seq(Going) /\ index \in 0..LoopCount
      /\ rows \subseteq 1..index /\ heard \in Seq(Vocab) /\ next \in Vocab
      /\ Len(tokens) \in Nat /\ Len(heard) \in Nat
      /\ ended \in {"no", "failed", "completed", "stopped", "exhausted"}
  BY DEF DecodeInd, DecodeTyped
<1>2. /\ PromptLength \in Nat /\ PromptLength >= 1 /\ LoopCount \in Nat
      /\ LoopCount <= MaxContext - 1 /\ MaxContext - 1 \in Nat
  BY <1>1, PromptFacts
<1>3. /\ Len(tokens) >= PromptLength /\ Len(tokens) >= index + 1
      /\ Len(tokens) = PromptLength \/ Len(tokens) <= MaxContext - 1
      /\ Len(tokens) - PromptLength <= Len(heard)
      /\ \A k \in 1..(Len(tokens) - PromptLength) : tokens[PromptLength + k] = heard[k]
  BY DEF DecodeInd, TokensInStep, TokensAreHeard
<1>4. TypeOK
  <2>1. tokens \in Seq(Vocab)
    BY <1>1, SeqMonotonic DEF Going
  <2>2. Len(tokens) <= Max({PromptLength, MaxContext - 1})
    BY <1>1, <1>2, <1>3, MaxOfTwo
  <2>3. rows \subseteq 1..(MaxContext - 1)
    BY <1>1, <1>2
  <2>4. Cardinality(observed) <= 1
    <3>1. observed = {} \/ \E t : observed = {t}
      BY DEF DecodeInd, ObservedIsFirstPrediction, None
    <3>2. Cardinality({}) = 0 /\ \A t : Cardinality({t}) = 1
      BY FS_EmptySet, FS_Singleton
    <3>3. CASE observed = {}
      BY <3>2, <3>3
    <3>4. CASE observed # {}
      <4>1. PICK t : observed = {t}
        BY <3>1, <3>4
      <4>2. Cardinality(observed) = 1
        BY <3>2, <4>1, Zenon
      <4>3. QED
        BY <4>2
    <3>5. QED
      BY <3>3, <3>4
  <2>5. QED
    BY <1>1, <2>1, <2>2, <2>3, <2>4 DEF TypeOK
<1>5. RowsAreTheirTokens
  <2>1. /\ SotOffset \in Nat /\ SotOffset <= Len(tokens) - 1
        /\ Len(Result) = Len(tokens) + 1 - SotOffset
        /\ \A i \in 1..Len(Result) : Result[i] = Finalized[SotOffset + i]
        /\ \A i \in 1..Len(tokens) : Finalized[i] = tokens[i]
    BY <1>1, ResultFacts
  <2>2. RowOf(Len(Result) - 1) = {}
    <3>1. SotOffset + (Len(Result) - 1) = Len(tokens) /\ Len(tokens) \notin rows
      BY <1>1, <1>3, <2>1
    <3>2. QED
      BY <3>1 DEF RowOf
  <2>3. ASSUME NEW i \in 0..(Len(Result) - 1), NEW row \in RowOf(i)
        PROVE  row = SotOffset + i
               /\ (row >= PromptLength => Result[i + 1] = heard[row - PromptLength + 1])
    <3>1. row = SotOffset + i /\ row \in rows /\ i \in Nat /\ i + 1 \in 1..Len(Result)
      BY <1>1, <2>1, <2>3 DEF RowOf
    <3>2. row \in Nat /\ row <= index /\ row + 1 \in 1..Len(tokens)
      BY <1>1, <1>3, <3>1
    <3>3. SotOffset + (i + 1) = row + 1
      BY <2>1, <3>1, <3>2
    <3>4. Result[i + 1] = tokens[row + 1]
      BY <2>1, <3>1, <3>2, <3>3
    <3>5. ASSUME row >= PromptLength PROVE tokens[row + 1] = heard[row - PromptLength + 1]
      <4>1. PICK k \in Nat : k = row - PromptLength + 1
        BY <1>2, <3>2, <3>5
      <4>2. k \in 1..(Len(tokens) - PromptLength) /\ PromptLength + k = row + 1
        BY <1>1, <1>2, <3>2, <3>5, <4>1
      <4>3. QED
        BY <1>3, <4>1, <4>2
    <3>6. QED
      BY <3>1, <3>4, <3>5
  <2>4. QED
    BY <2>2, <2>3 DEF RowsAreTheirTokens
<1>6. QED
  BY <1>4, <1>5 DEF DecodeInd, DecodeHolds, RowsFitTheirTokens

-----------------------------------------------------------------------------
(* The slices. *)

LEMMA TimesAreIn ==
  ASSUME NEW seq \in Seq(Vocab), NEW i \in 1..Len(seq), IsTime(seq[i])
  PROVE  TimesIn(seq) # <<>>
<1> DEFINE idx == {k \in DOMAIN seq : IsTime(seq[k])}
<1>1. idx \in SUBSET (DOMAIN seq) /\ i \in idx /\ idx \in SUBSET (1..Len(seq)) /\ Len(seq) \in Nat
  OBVIOUS
<1> HIDE DEF idx
<1>2. Len(At(seq, idx)) = Cardinality(idx)
  BY <1>1, SelectionType
<1>3. IsFiniteSet(idx)
  BY <1>1, FS_Interval, FS_Subset
<1>4. Cardinality(idx) # 0
  BY <1>1, <1>3, FS_EmptySet
<1>5. At(seq, idx) # <<>>
  BY <1>2, <1>4
<1>6. QED
  BY <1>5 DEF TimesIn, idx

\* Where a window is sliced: the last slice ends past every pair, and at or
\* past every time if it was synthesized.
LEMMA SliceFacts ==
  ASSUME DecodeInd
  PROVE  /\ SliceIndexes \subseteq 1..(Len(Result) - 1) /\ SliceEnds \subseteq 1..Len(Result)
         /\ \A e \in SliceIndexes : Timed(e) /\ Timed(e + 1)
         /\ SliceEnds # {} => SliceIndexes # {} /\ SliceIndexes \subseteq SliceEnds
         /\ \A e \in SliceEnds :
              \/ e \in SliceIndexes
              \/ /\ SingleTimestampEnding /\ Timed(e)
                 /\ \A i \in 1..Len(Result) : Timed(i) => i <= e
              \/ ~SingleTimestampEnding /\ NoTimestampEnding /\ e = Len(Result)
         /\ SliceEnds # {} /\ SingleTimestampEnding =>
              \E e \in SliceEnds : Timed(e) /\ \A i \in 1..Len(Result) : Timed(i) => i <= e
         /\ SliceEnds # {} /\ ~SingleTimestampEnding /\ NoTimestampEnding =>
              Len(Result) \in SliceEnds
         /\ ~(SingleTimestampEnding /\ NoTimestampEnding)
<1>1. Len(Result) \in Nat /\ DOMAIN Result = 1..Len(Result) /\ Len(Result) >= 1
  <2>1. Result \in Seq(Vocab) /\ Len(Result) = Len(tokens) + 1 - SotOffset
        /\ SotOffset \in 0..(Len(tokens) - 1) /\ Len(tokens) \in Nat
    BY ResultFacts DEF DecodeInd, DecodeTyped
  <2>2. QED
    BY <2>1
<1>2. /\ SliceIndexes \subseteq 1..(Len(Result) - 1)
      /\ \A e \in SliceIndexes : Timed(e) /\ Timed(e + 1)
  <2>1. ASSUME NEW e \in SliceIndexes
        PROVE  e \in 1..(Len(Result) - 1) /\ Timed(e) /\ Timed(e + 1)
    <3>1. PICK i \in 2..Len(Result) : e = i - 1 /\ Timed(i - 1) /\ Timed(i)
      BY DEF SliceIndexes
    <3>2. i - 1 \in 1..(Len(Result) - 1) /\ (i - 1) + 1 = i
      BY <1>1
    <3>3. QED
      BY <3>1, <3>2
  <2>2. QED
    BY <2>1
<1>3. ~(SingleTimestampEnding /\ NoTimestampEnding)
  <2>1. SUFFICES ASSUME SingleTimestampEnding, NoTimestampEnding PROVE FALSE
    OBVIOUS
  <2>2. PICK single, no : single = <<FALSE, TRUE, FALSE>> /\ no = <<FALSE, FALSE, FALSE>>
    OBVIOUS
  <2>3. /\ Len(single) = 3 /\ 2 \in DOMAIN single /\ single[2] = TRUE
        /\ Len(no) = 3 /\ 2 \in DOMAIN no /\ no[2] = FALSE
    BY <2>2
  <2>4. EndsLike(single) /\ EndsLike(no)
    BY <2>1, <2>2, Zenon DEF SingleTimestampEnding, NoTimestampEnding
  <2>5. /\ Timed(Len(Result) - Len(single) + 2) = single[2]
        /\ Timed(Len(Result) - Len(no) + 2) = no[2]
    BY <2>3, <2>4, Zenon DEF EndsLike
  <2>6. QED
    BY <2>3, <2>5, Zenon
<1>4. CASE SliceIndexes = {}
  BY <1>1, <1>2, <1>3, <1>4 DEF SliceEnds
<1>5. CASE SliceIndexes # {}
  <2> DEFINE timed == {i \in DOMAIN Result : Timed(i)}
  <2>1. timed # {} /\ timed \in SUBSET (0..Len(Result))
    <3>1. PICK e \in SliceIndexes : TRUE
      BY <1>5
    <3>2. e \in 1..Len(Result) /\ Timed(e)
      BY <1>1, <1>2
    <3>3. QED
      BY <1>1, <3>2
  <2>2. Max(timed) \in timed /\ \A y \in timed : y <= Max(timed)
    BY <1>1, <2>1, MaxOfIndices
  <2>3. PICK top \in 1..Len(Result) : /\ top = Max(timed) /\ Timed(top)
                                     /\ \A i \in 1..Len(Result) : Timed(i) => i <= top
    BY <1>1, <2>2
  <2>4. SliceEnds = SliceIndexes \cup (IF SingleTimestampEnding THEN {top}
                                       ELSE IF NoTimestampEnding THEN {Len(Result)} ELSE {})
    BY <1>5, <2>3, Zenon DEF SliceEnds
  <2>5. SliceEnds \subseteq 1..Len(Result)
    <3>1. SliceIndexes \subseteq 1..Len(Result) /\ Len(Result) \in 1..Len(Result)
      BY <1>1, <1>2
    <3>2. ASSUME NEW e \in SliceEnds
          PROVE  e \in SliceIndexes \/ e = top \/ e = Len(Result)
      BY <2>4
    <3>3. QED
      BY <2>3, <3>1, <3>2
  <2>6. CASE SingleTimestampEnding
    <3>1. SliceEnds = SliceIndexes \cup {top}
      BY <2>4, <2>6
    <3>2. QED
      BY <1>2, <1>3, <1>5, <2>3, <2>5, <2>6, <3>1, Zenon
  <2>7. CASE ~SingleTimestampEnding /\ NoTimestampEnding
    <3>1. SliceEnds = SliceIndexes \cup {Len(Result)}
      BY <2>4, <2>7
    <3>2. QED
      BY <1>2, <1>5, <2>5, <2>7, <3>1, Zenon
  <2>8. CASE ~SingleTimestampEnding /\ ~NoTimestampEnding
    <3>1. SliceEnds = SliceIndexes
      BY <2>4, <2>8
    <3>2. QED
      BY <1>2, <1>5, <2>5, <2>8, <3>1, Zenon
  <2>9. QED
    BY <2>6, <2>7, <2>8
<1>6. QED
  BY <1>4, <1>5

LEMMA SlicesHoldTimes == DecodeInd => SlicesAreTimed
<1> SUFFICES ASSUME DecodeInd, NEW end \in SliceEnds PROVE TimesIn(SliceTo(end)) # <<>>
  BY DEF SlicesAreTimed
<1>1. Result \in Seq(Vocab) /\ Len(Result) \in Nat
  BY ResultFacts
<1>2. PICK stop \in 1..Len(Result) : stop = end
  BY SliceFacts
<1> DEFINE before == {0} \cup {e \in SliceEnds : e < end}
<1>3. PICK prev \in before : prev = Max(before) /\ \A e \in before : e <= prev
  <2>1. before \in SUBSET (0..Len(Result)) /\ before # {}
    BY <1>1, SliceFacts
  <2>2. QED
    BY <1>1, <2>1, MaxOfIndices
<1>4. prev \in Nat /\ prev < stop
  BY <1>1, <1>2, SliceFacts
<1> HIDE DEF before
<1>5. PICK first \in Int : first = prev + 1
  BY <1>4
<1>6. \A i \in first..stop : Result[i] \in Vocab
  BY <1>1, <1>4, <1>5
<1>7. SliceTo(end) = SubSeq(Result, first, stop)
  BY <1>2, <1>3, <1>5, Zenon DEF SliceTo, before
<1>8. /\ SliceTo(end) \in Seq(Vocab) /\ Len(SliceTo(end)) = stop - first + 1
      /\ \A i \in 1..(stop - first + 1) : SliceTo(end)[i] = Result[first + i - 1]
  BY <1>2, <1>4, <1>5, <1>6, <1>7, SubSeqProperties
<1>9. ASSUME NEW i \in first..stop, Timed(i) PROVE TimesIn(SliceTo(end)) # <<>>
  <2>1. PICK k \in Nat : k = i - first + 1
    BY <1>4, <1>5
  <2>2. k \in 1..(stop - first + 1) /\ first + k - 1 = i
    BY <1>2, <1>5, <2>1
  <2>3. SliceTo(end)[k] = Result[i]
    BY <1>8, <2>2
  <2>4. IsTime(SliceTo(end)[k]) /\ k \in 1..Len(SliceTo(end))
    BY <1>8, <1>9, <2>2, <2>3 DEF Timed
  <2>5. QED
    BY <1>8, <2>4, TimesAreIn
<1>10. CASE Timed(end)
  <2>1. stop \in first..stop
    BY <1>4, <1>5
  <2>2. QED
    BY <1>2, <1>9, <1>10, <2>1
<1>11. CASE ~Timed(end)
  <2>1. end = Len(Result) /\ end \notin SliceIndexes
    BY <1>11, SliceFacts
  <2>2. PICK e \in SliceIndexes : TRUE
    BY SliceFacts
  <2>3. e \in SliceEnds /\ e \in Nat /\ e < end
    BY <1>1, <2>1, SliceFacts
  <2>4. e \in before /\ e <= prev
    BY <1>3, <2>3 DEF before
  <2>5. prev \in SliceIndexes
    <3>1. prev # 0
      <4>1. e >= 1
        BY SliceFacts
      <4>2. QED
        BY <1>4, <2>3, <2>4, <4>1
    <3>2. prev \in SliceEnds
      BY <3>1 DEF before
    <3>3. ASSUME prev \notin SliceIndexes PROVE FALSE
      <4>1. ~SingleTimestampEnding
        BY <1>11, <2>1, SliceFacts
      <4>2. prev = Len(Result)
        BY <3>2, <3>3, <4>1, SliceFacts
      <4>3. QED
        BY <1>1, <1>2, <1>4, <2>1, <4>2
    <3>4. QED
      BY <3>3
  <2>6. Timed(prev + 1)
    BY <2>5, SliceFacts
  <2>7. first \in first..stop
    BY <1>4, <1>5
  <2>8. QED
    BY <1>5, <1>9, <2>6, <2>7
<1>12. QED
  BY <1>10, <1>11

LEMMA WordsComeBack == DecodeInd => WordsAreShownOrHeardAgain
<1> SUFFICES ASSUME DecodeInd, SliceEnds # {},
                    NEW i \in PromptLength - SotOffset + 1 .. Len(Result), Result[i] \in Words,
                    ~(i <= Max(SliceEnds))
             PROVE  \E j \in 1..i : Timed(j) /\ SeekBy <= Result[j] - TimeBegin
  BY DEF WordsAreShownOrHeardAgain
<1>1. Result \in Seq(Vocab) /\ Len(Result) \in Nat
  BY ResultFacts
<1>2. PICK top \in SliceEnds : top = Max(SliceEnds) /\ \A e \in SliceEnds : e <= top
  <2>1. SliceEnds \in SUBSET (0..Len(Result))
    BY <1>1, SliceFacts
  <2>2. QED
    BY <1>1, <2>1, MaxOfIndices
<1>3. top \in 1..Len(Result) /\ i \in Int /\ i <= Len(Result) /\ i > top
  <2>1. PromptLength \in Int /\ SotOffset \in Int
    BY ResultFacts, PromptFacts DEF DecodeInd, DecodeTyped
  <2>2. top \in 1..Len(Result)
    BY SliceFacts
  <2>3. i \in Int /\ i <= Len(Result)
    BY <1>1, <2>1
  <2>4. QED
    BY <1>1, <1>2, <2>2, <2>3
<1>4. ~NoTimestampEnding
  <2>1. SUFFICES ASSUME NoTimestampEnding PROVE FALSE
    OBVIOUS
  <2>2. Len(Result) \in SliceEnds
    BY <2>1, SliceFacts
  <2>3. QED
    BY <1>1, <1>2, <1>3, <2>2
<1>5. SeekBy = Result[top + (IF SingleTimestampEnding THEN 0 ELSE 1)] - TimeBegin
  BY <1>2, <1>4 DEF SeekBy
<1>6. PICK j \in 1..i : Timed(j) /\ SeekBy = Result[j] - TimeBegin
  <2>1. CASE SingleTimestampEnding
    <3>1. PICK e \in SliceEnds : Timed(e) /\ \A k \in 1..Len(Result) : Timed(k) => k <= e
      BY <2>1, SliceFacts
    <3>2. \/ top \in SliceIndexes
          \/ Timed(top) /\ \A k \in 1..Len(Result) : Timed(k) => k <= top
      BY <1>4, <2>1, SliceFacts
    <3>3. top \notin SliceIndexes
      <4>1. SUFFICES ASSUME top \in SliceIndexes PROVE FALSE
        OBVIOUS
      <4>2. Timed(top + 1) /\ top + 1 \in 1..Len(Result)
        BY <1>1, <1>3, <4>1, SliceFacts
      <4>3. top + 1 <= e /\ e <= top
        BY <1>2, <3>1, <4>2
      <4>4. QED
        BY <1>3, <4>3, SliceFacts
    <3>4. top + 0 = top /\ top \in 1..i
      BY <1>1, <1>3
    <3>5. QED
      BY <1>5, <2>1, <3>2, <3>3, <3>4
  <2>2. CASE ~SingleTimestampEnding
    <3>1. top \in SliceIndexes
      BY <1>4, <2>2, SliceFacts
    <3>2. Timed(top + 1) /\ top + 1 \in 1..i
      BY <1>1, <1>3, <3>1, SliceFacts
    <3>3. QED
      BY <1>5, <2>2, <3>2
  <2>3. QED
    BY <2>1, <2>2
<1>7. SeekBy \in Int
  <2>1. j \in 1..Len(Result)
    BY <1>1, <1>3
  <2>2. Result[j] \in Nat /\ TimeBegin \in Nat
    BY <1>1, <2>1, ElementOfSeq, VocabFacts
  <2>3. QED
    BY <1>6, <2>2
<1>8. QED
  BY <1>6, <1>7

-----------------------------------------------------------------------------
(* The theorems. *)

LEMMA DecodeInvariance == Spec => []DecodeInd
BY DecodeInit, DecodeStep, PTL DEF Spec

\* decode_text keeps its books for every vocabulary, prompt and context, and
\* whatever the model predicts, fails at or is stopped at: a result's token is
\* timed by the row of its own prediction, the language observed is the first
\* predicted past the prompt, and sampled times come in pairs and rise.
THEOREM DecodingHolds == Spec => []DecodeHolds
BY DecodeInvariance, DecodeIndHolds, PTL

\* find_seek_point_and_segments, of any result the loop can end with: each of
\* its slices has a time, so that neither `expect` fails, and a word past the
\* last slice is decoded again from a time before it.
THEOREM WindowsMeet == Spec => []NothingFallsBetweenWindows
BY DecodeInvariance, SlicesHoldTimes, WordsComeBack, PTL DEF NothingFallsBetweenWindows
=============================================================================
