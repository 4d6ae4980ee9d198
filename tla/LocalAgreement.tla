--------------------------- MODULE LocalAgreement ---------------------------
(***************************************************************************)
(* The LocalAgreement engine of the eager streaming mode: it is handed one *)
(* re-decode of the growing recording after another and decides which      *)
(* words are settled (`confirmed_words`), which are held back as the next  *)
(* decode's forced prefill (`last_agreed_words`), and from which instant   *)
(* the next decode starts (`last_agreed_seconds`, the watermark).          *)
(*                                                                         *)
(* Instants are ticks.  A word start or end is a representable instant (a  *)
(* multiple of InstantTicks: the spacing of f32 seconds at the stream's    *)
(* magnitude) and an audio sample is SampleTicks ticks long, so both the   *)
(* early stream (several instants to a sample) and the late one (several   *)
(* samples to an instant) are instances of the same module.                *)
(***************************************************************************)
EXTENDS Selections, FiniteSetsExt

CONSTANTS
  Texts,            \* normalized word texts
  Facts,            \* reproducibility facts a result may carry
  Results,          \* what a decode may return: [words |-> ..., facts |-> ...]
  RequestedCount,   \* the count handed to set_agreement_count_needed
  PrefillBudget,    \* MAX_HOLDBACK_PREFILL_TOKENS
  SampleTicks,      \* ticks in one audio sample
  InstantTicks,     \* ticks between two representable instants
  MaxKept           \* bound: how many results the engine may keep

\* The instants an f32 can hold, and a word of a transcription result.
Instant == {t \in Nat : \E k \in 0..t : t = k * InstantTicks}
Word == [text : Texts, start : Instant, end : Instant, tokens : Nat]
Result == [words : Seq(Word), facts : SUBSET Facts]

ASSUME ResultsAssumption == Results \subseteq Result
ASSUME CountAssumption == RequestedCount \in Nat
ASSUME BudgetAssumption == PrefillBudget \in Nat
ASSUME TickAssumption ==
  /\ SampleTicks \in Nat \ {0}
  /\ InstantTicks \in Nat \ {0}

VARIABLES
  lastAgreedSeconds,   \* the watermark
  prevResult,          \* words of the previous worded result, raw; <<>> is None
  prevWords,
  hypothesisWords,
  lastAgreedWords,     \* the holdback
  holdbackSuperseded,
  confirmedWords,
  results,             \* facts of the kept results, oldest first
  ingestedFacts,
  outcome,             \* what the last ingest returned
  finalized,
  transcript           \* the word list finalize took out of the engine

vars == <<lastAgreedSeconds, prevResult, prevWords, hypothesisWords,
          lastAgreedWords, holdbackSuperseded, confirmedWords, results,
          ingestedFacts, outcome, finalized, transcript>>

AgreementCountNeeded == IF RequestedCount = 0 THEN 1 ELSE RequestedCount

-----------------------------------------------------------------------------
(* Words, instants and samples. *)

Starts(words) == {words[i].start : i \in DOMAIN words}

\* An f32 seconds-to-sample conversion rounds to the nearest sample.
ClipSeekSample(instant) == (2 * instant + SampleTicks) \div (2 * SampleTicks)

\* The representable instant nearest to a point in time.
Nearest(tick) ==
  ((2 * tick + InstantTicks) \div (2 * InstantTicks)) * InstantTicks

NextSampleRounded(settled) ==
  Nearest((ClipSeekSample(settled) + 1) * SampleTicks)

\* The first representable instant, from the one nearest to the next sample
\* on, that is past `settled` both in seconds and in samples.  The nearest one
\* is at most half a step short, so a single next_up is enough.
PastTheSettledInstant(settled) ==
  LET first == Nearest((ClipSeekSample(settled) + 1) * SampleTicks)
  IN  Min({t \in {first, first + InstantTicks} :
             t > settled /\ ClipSeekSample(t) > ClipSeekSample(settled)})

\* The words of a result at or past the watermark: all that is offered.
WatermarkFiltered(words, watermark) ==
  At(words, {i \in DOMAIN words : words[i].start >= watermark})

CommonPrefixLength(previous, current) ==
  Max({n \in 0..Len(current) :
         /\ n <= Len(previous)
         /\ \A i \in 1..n : previous[i].text = current[i].text})

DifferentSuffix(previous, current) ==
  From(current, CommonPrefixLength(previous, current))

\* Added up by counting: a word has as many marks as tokens.
Marks(words) == UNION {{i} \X (1..words[i].tokens) : i \in DOMAIN words}
PrefillTokens(words) == Cardinality(Marks(words))

-----------------------------------------------------------------------------
(* Where an advance splits the agreed prefix, and the watermark it sets. *)

\* Some watermark is past every settled start and past no unsettled one.
ASparingWatermarkExists(settled, unsettled) ==
  \A s \in settled, u \in unsettled : s < u

\* The shortest cut that leaves a holdback the prefill can carry.
BudgetedSplit(common) ==
  Min({k \in 0..Len(common) :
         ~(PrefillTokens(From(common, k)) > PrefillBudget /\ k < Len(common))})

\* Slip: no backing off; without a boundary ahead all is confirmed.
SplitWithoutBackOff(hypothesis, agreed, confirmed) ==
  LET floor == BudgetedSplit(UpTo(hypothesis, agreed))
      forward == {k \in Max({agreed - AgreementCountNeeded, floor})..(agreed - 1) :
                    ASparingWatermarkExists(
                      Starts(confirmed) \cup Starts(UpTo(hypothesis, k)),
                      Starts(From(hypothesis, k)))}
  IN  IF forward # {} THEN Min(forward) ELSE agreed

\* The wanted cut keeps AgreementCountNeeded words back; the budget may move it
\* later, a missing boundary later still, then earlier down to the budget's
\* floor, and past the end of the agreed prefix when nothing else is left.
SplitAtAStrictBoundary(hypothesis, agreed, confirmed) ==
  LET Legal(k) == ASparingWatermarkExists(
                    Starts(confirmed) \cup Starts(UpTo(hypothesis, k)),
                    Starts(From(hypothesis, k)))
      floor == BudgetedSplit(UpTo(hypothesis, agreed))
      widened == Max({agreed - AgreementCountNeeded, floor})
      forward == {k \in widened..(agreed - 1) : Legal(k)}
      backward == {k \in floor..(widened - 1) : Legal(k)}
  IN  IF forward # {} THEN Min(forward)
      ELSE IF backward # {} THEN Max(backward)
      ELSE agreed

\* Slip: an empty holdback anchored at the last word's own end.
AnchorAtTheLastEnd(last, settledHigh) == last.end

EmptyHoldbackAnchor(last, settledHigh) ==
  Max({last.end, PastTheSettledInstant(settledHigh)})

\* Slips: no unconfirmed word spared, and every one spared.
SparesNoWord(anchor, settledHigh, unconfirmed) == anchor
SparesEveryWord(anchor, settledHigh, unconfirmed) ==
  Min({anchor} \cup Starts(unconfirmed))

\* The anchor, lowered to the first unconfirmed word it can still spare.
SparingWatermark(anchor, settledHigh, unconfirmed) ==
  Min({anchor} \cup {u \in Starts(unconfirmed) : u > settledHigh})

\* The watermark of an advance that cuts the hypothesis at `split`, when the
\* confirmed list has become `confirmed`.
Watermark(hypothesis, agreed, split, confirmed) ==
  LET settledHigh == IF confirmed = <<>> THEN -1 ELSE Max(Starts(confirmed))
      anchor == IF split < agreed
                  THEN hypothesis[split + 1].start
                  ELSE EmptyHoldbackAnchor(hypothesis[agreed], settledHigh)
  IN  SparingWatermark(anchor, settledHigh, From(hypothesis, split))

-----------------------------------------------------------------------------
Init ==
  /\ lastAgreedSeconds = 0
  /\ prevResult = <<>>
  /\ prevWords = <<>>
  /\ hypothesisWords = <<>>
  /\ lastAgreedWords = <<>>
  /\ holdbackSuperseded = FALSE
  /\ confirmedWords = <<>>
  /\ results = <<>>
  /\ ingestedFacts = {}
  /\ outcome = "none"
  /\ finalized = FALSE
  /\ transcript = <<>>

\* What every ingest does first: it records the result's facts, also those of
\* a result it will not keep.
Observe(r) ==
  /\ ~finalized
  /\ Len(results) < MaxKept
  /\ ingestedFacts' = ingestedFacts \cup r.facts
  /\ UNCHANGED <<finalized, transcript>>

\* A result without word timings is kept and changes nothing else.
IngestWordless(r) ==
  /\ Observe(r)
  /\ r.words = <<>>
  /\ results' = Append(results, r.facts)
  /\ outcome' = "NoWordTimings"
  /\ UNCHANGED <<lastAgreedSeconds, prevResult, prevWords, hypothesisWords,
                 lastAgreedWords, holdbackSuperseded, confirmedWords>>

\* The first worded result has nothing to agree with; it is kept.
IngestFirst(r) ==
  /\ Observe(r)
  /\ r.words # <<>>
  /\ prevResult = <<>>
  /\ hypothesisWords' = WatermarkFiltered(r.words, lastAgreedSeconds)
  /\ holdbackSuperseded' = FALSE
  /\ prevResult' = r.words
  /\ results' = Append(results, r.facts)
  /\ outcome' = "AwaitingAgreement"
  /\ UNCHANGED <<lastAgreedSeconds, prevWords, lastAgreedWords, confirmedWords>>

\* A later worded result: both it and its predecessor are cut at the watermark.
Compare(r) ==
  /\ Observe(r)
  /\ r.words # <<>>
  /\ prevResult # <<>>
  /\ hypothesisWords' = WatermarkFiltered(r.words, lastAgreedSeconds)
  /\ prevWords' = WatermarkFiltered(prevResult, lastAgreedSeconds)
  /\ prevResult' = r.words

\* Too short an agreement: the result is withheld and its holdback superseded.
IngestDisagreeing(r) ==
  /\ Compare(r)
  /\ CommonPrefixLength(prevWords', hypothesisWords') < AgreementCountNeeded
  /\ holdbackSuperseded' = TRUE
  /\ outcome' = "AwaitingAgreement"
  /\ UNCHANGED <<lastAgreedSeconds, lastAgreedWords, confirmedWords, results>>

\* An agreement advances: a part of the agreed prefix is confirmed, the rest
\* is held back, and the watermark moves between the two.
IngestAgreeing(r) ==
  /\ Compare(r)
  /\ LET agreed == CommonPrefixLength(prevWords', hypothesisWords')
         split == SplitAtAStrictBoundary(hypothesisWords', agreed, confirmedWords)
     IN  /\ agreed >= AgreementCountNeeded
         /\ confirmedWords' = confirmedWords \o UpTo(hypothesisWords', split)
         /\ lastAgreedWords' = From(UpTo(hypothesisWords', agreed), split)
         /\ lastAgreedSeconds' =
              Watermark(hypothesisWords', agreed, split, confirmedWords')
  /\ holdbackSuperseded' = FALSE
  /\ results' = Append(results, r.facts)
  /\ outcome' = IF /\ lastAgreedSeconds' = lastAgreedSeconds
                   /\ Len(confirmedWords') = Len(confirmedWords)
                  THEN "Stationary" ELSE "Progressed"

Ingest(r) ==
  \/ IngestWordless(r)
  \/ IngestFirst(r)
  \/ IngestDisagreeing(r)
  \/ IngestAgreeing(r)

\* Slip: a holdback the last hypothesis contradicted is published all the same.
FinalizedWithStaleHoldback ==
  confirmedWords \o lastAgreedWords
    \o DifferentSuffix(prevWords, hypothesisWords)

\* The word list finalize would publish from the present state.
FinalizedWords ==
  IF holdbackSuperseded /\ hypothesisWords # <<>>
    THEN confirmedWords \o hypothesisWords
    ELSE confirmedWords \o lastAgreedWords
           \o DifferentSuffix(prevWords, hypothesisWords)

\* Finalize consumes the engine: its words are taken out, and the facts of the
\* kept results are folded into those observed at ingest.
Finalize ==
  /\ ~finalized
  /\ finalized' = TRUE
  /\ transcript' = FinalizedWords
  /\ ingestedFacts' = ingestedFacts \cup UNION {results[i] : i \in DOMAIN results}
  /\ confirmedWords' = <<>>
  /\ UNCHANGED <<lastAgreedSeconds, prevResult, prevWords, hypothesisWords,
                 lastAgreedWords, holdbackSuperseded, results, outcome>>

Next ==
  \/ \E r \in Results : Ingest(r)
  \/ Finalize

Spec == Init /\ [][Next]_vars

-----------------------------------------------------------------------------
(* What the engine is for. *)

\* Every instant the engine keeps is one its f32 seconds can hold, and every
\* list it keeps is a list of words.
TypeOK ==
  /\ lastAgreedSeconds \in Instant
  /\ prevResult \in Seq(Word)
  /\ prevWords \in Seq(Word)
  /\ hypothesisWords \in Seq(Word)
  /\ lastAgreedWords \in Seq(Word)
  /\ holdbackSuperseded \in BOOLEAN
  /\ confirmedWords \in Seq(Word)
  /\ results \in Seq(SUBSET Facts)
  /\ ingestedFacts \subseteq Facts
  /\ outcome \in {"none", "NoWordTimings", "AwaitingAgreement",
                  "Stationary", "Progressed"}
  /\ finalized \in BOOLEAN
  /\ transcript \in Seq(Word)

\* Rule W's first postcondition, stated total in the code: every confirmed
\* word starts strictly before the watermark, so no later decode can offer a
\* settled word again, whatever order the starts came in.
SettledBehindWatermark ==
  \A s \in Starts(confirmedWords) : s < lastAgreedSeconds

\* The holdback is the next decode's forced prefill: it always fits the
\* budget, below which prefill_tokens would silently truncate it.
HoldbackFitsPrefill == PrefillTokens(lastAgreedWords) <= PrefillBudget

\* Every held-back word can still be offered: a holdback word behind the
\* watermark could neither be confirmed by a later round nor re-decoded.
HoldbackOfferable ==
  \A s \in Starts(lastAgreedWords) : s >= lastAgreedSeconds

\* Finalizing now would publish the whole of the newest hypothesis, once, as
\* the end of the transcript: neither the split nor a superseded holdback may
\* lose, repeat or reorder its words.
TranscriptEndsWithHypothesis ==
  LET tail == Len(FinalizedWords) - Len(hypothesisWords)
  IN  ~finalized => /\ tail >= 0
                    /\ From(FinalizedWords, tail) = hypothesisWords

\* A round that agreed and advanced.
Advances ==
  /\ Len(results') > Len(results)
  /\ outcome' \in {"Stationary", "Progressed"}

\* How many words the step confirmed, and what the agreed prefix was.
Confirms == Len(confirmedWords') - Len(confirmedWords)
AgreedPrefix == UpTo(hypothesisWords', Confirms + Len(lastAgreedWords'))

\* The back-off always finds a boundary unless the prefill budget took it away:
\* an advance empties the holdback only if the agreed prefix did not fit the
\* budget (split 0 is otherwise legal).
HoldbackEmptiesOnlyOverBudget ==
  [][Advances /\ lastAgreedWords' = <<>>
       => PrefillTokens(AgreedPrefix) > PrefillBudget]_vars

\* Progress of an advance: an agreed prefix over the budget always confirms
\* something, which is what bounds the rounds that confirm nothing; confirming
\* words moves the watermark forward, so that the next decode never re-reads
\* what this one settled; and nothing moves it back.
AdvanceIsSound ==
  [][/\ lastAgreedSeconds' >= lastAgreedSeconds
     /\ Advances =>
          /\ PrefillTokens(AgreedPrefix) > PrefillBudget => Confirms > 0
          /\ Confirms > 0 => lastAgreedSeconds' > lastAgreedSeconds]_vars

\* Rule W's second postcondition and its one exception: a word an advance left
\* unconfirmed falls behind the watermark only when no split that keeps the
\* prefill within budget, with any watermark, could have kept it.
Strands(words) == \E s \in Starts(words) : s < lastAgreedSeconds'
NoAvoidableStrand ==
  [][Advances /\ Strands(From(hypothesisWords', Confirms))
       => \A k \in 0..Len(AgreedPrefix) :
            ~(PrefillTokens(From(AgreedPrefix, k)) > PrefillBudget)
              => \A w \in Starts(hypothesisWords') \cup {lastAgreedSeconds'} :
                   \/ \E s \in Starts(confirmedWords)
                               \cup Starts(UpTo(hypothesisWords', k)) : s >= w
                   \/ \E u \in Starts(From(hypothesisWords', k)) : u < w]_vars

\* The engine implements the promise: what it confirms is settled once, from
\* the watermark on, and finalize only adds to it.
Settled == INSTANCE SettledTranscript WITH
  Slack <- 0,
  settled <- IF finalized THEN transcript ELSE confirmedWords,
  frontier <- lastAgreedSeconds,
  closed <- finalized
PromiseKept == Settled!STSpec
=============================================================================
