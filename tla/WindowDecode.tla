---------------------------- MODULE WindowDecode ----------------------------
(***************************************************************************)
(* One window: decode_text's token loop under the timestamp rules, and     *)
(* find_seek_point_and_segments, which cuts what it returns into segments  *)
(* and says where the next window starts.                                  *)
(*                                                                         *)
(* Tokens are numbers in the vocabulary's order: words, the end of text,   *)
(* the other special tokens, the times.  The model's logits are any: a     *)
(* step samples any token the filters leave.  Positions count from zero.   *)
(***************************************************************************)
EXTENDS Integers, Sequences, FiniteSets, SequencesExt, Selections

CONSTANTS
  Words,           \* the ids below special_token_begin
  Blank,           \* the whitespace token, one of the words
  EndToken, StartOfTranscript, Languages, TaskTokens, StartOfPrev, NoTimestamps,
  TimeBegin,       \* <|0.00|>
  LastTime,        \* the last token of the vocabulary
  Multilingual,    \* the model's dims
  MaxContext,      \* MAX_TOKEN_CONTEXT
  Window,          \* segment_size, in time tokens
  Options,         \* the options a run may have
  Sampleable,      \* bound: the tokens a step may predict
  Troubled         \* bound: the options under which steps may fail, be stopped,
                   \* or write no alignment row

Times == TimeBegin..LastTime
Specials == {EndToken, StartOfTranscript, StartOfPrev, NoTimestamps}
              \cup Languages \cup TaskTokens
Vocab == Words \cup Specials \cup Times

\* The order of the ids, which every filter relies on.
ASSUME VocabAssumption ==
  /\ Words \subseteq Nat /\ Blank \in Words
  /\ Specials \subseteq Nat /\ {TimeBegin, LastTime} \subseteq Nat
  /\ \A w \in Words : w < EndToken
  /\ \A s \in Specials : EndToken <= s /\ s < TimeBegin
  /\ EndToken \notin {StartOfTranscript, StartOfPrev, NoTimestamps} \cup Languages \cup TaskTokens
  /\ TimeBegin < LastTime
  /\ Sampleable \subseteq Vocab /\ Troubled \subseteq Options
ASSUME ContextAssumption == MaxContext \in Nat \ {0} /\ Window \in Nat \ {0}
ASSUME OptionsAssumption ==
  Options \subseteq
    [usePrefillPrompt : BOOLEAN, language : Languages, task : TaskTokens,
     withoutTimestamps : BOOLEAN, promptTokens : Seq(Vocab), prefixTokens : Seq(Vocab),
     suppressBlank : BOOLEAN, suppressTokens : SUBSET Nat, firstTokenThreshold : BOOLEAN,
     sampleLength : Nat]

VARIABLES
  options,   \* the DecodingOptions of the run
  tokens,    \* current_tokens
  next,      \* next_token
  index,     \* token_index
  rows,      \* the alignment rows this decode committed
  observed,  \* the language observed: none or one token, as a set
  ended,     \* how the loop ended
  heard      \* history: what was predicted, from the last prompt position on

vars == <<options, tokens, next, index, rows, observed, ended, heard>>

None == {}
IsTime(token) == token >= TimeBegin
WordsOf(seq) == At(seq, {i \in DOMAIN seq : seq[i] < EndToken})
Suffix(seq, n) == SubSeq(seq, Max({0, Len(seq) - n}) + 1, Len(seq))

-----------------------------------------------------------------------------
(* The prompt. *)

PrefillTokens(o) ==
  LET lead == <<StartOfTranscript>>
              \o (IF Multilingual THEN <<o.language, o.task>> ELSE <<>>)
              \o <<IF o.withoutTimestamps THEN NoTimestamps ELSE TimeBegin>>
      previous == IF o.promptTokens = <<>> THEN <<>>
                  ELSE <<StartOfPrev>>
                       \o WordsOf(Suffix(o.promptTokens, MaxContext \div 2 - 1))
  IN  previous \o lead \o WordsOf(Suffix(o.prefixTokens, MaxContext \div 2))

Prompt ==
  IF options.usePrefillPrompt THEN PrefillTokens(options) ELSE <<StartOfTranscript>>
PromptLength == Len(Prompt)

Init ==
  /\ options \in Options
  /\ tokens = Prompt
  /\ next = Last(Prompt)
  /\ index = 0
  /\ rows = {}
  /\ observed = None
  /\ ended = "no"
  /\ heard = <<>>

-----------------------------------------------------------------------------
(* The filters: which tokens they leave, given the tokens so far. *)

\* From where the timestamp rules look, if they apply at all.
EffectiveSampleBegin(seq) ==
  IF ~Multilingual THEN {PromptLength}
  ELSE LET tasks == {i \in 1..Min({3, Len(seq)}) : seq[i] \in TaskTokens}
       IN  IF tasks = {} THEN {} ELSE {Max({Min(tasks), PromptLength})}

\* The pairing rules over what was sampled: after a pair, or an opening time,
\* no time; after a closing time, no word; no time before the last one, nor at
\* it unless it is the second of a pair.
PairedLeft(sampled) ==
  LET last == IsTime(Last(sampled))
      penultimate == Len(sampled) < 2 \/ IsTime(sampled[Len(sampled) - 1])
      times == {i \in DOMAIN sampled : IsTime(sampled[i])}
      lowest == IF times = {} THEN TimeBegin
                ELSE sampled[Max(times)] + (IF last /\ ~penultimate THEN 0 ELSE 1)
  IN  {token \in Vocab :
         /\ last /\ penultimate => ~IsTime(token)
         /\ last /\ ~penultimate => token >= EndToken
         /\ IsTime(token) => token >= lowest}

\* TimestampRulesFilter.  Its last rule, which masks all but the times when
\* their mass is greatest, only ever chooses among the tokens left here.
TimestampRulesLeft(seq) ==
  LET from == EffectiveSampleBegin(seq)
      begin == CHOOSE b \in from : TRUE
  IN  IF from = {} \/ begin > Len(seq) THEN Vocab
      ELSE (IF begin = Len(seq) THEN Vocab
            ELSE PairedLeft(SubSeq(seq, begin + 1, Len(seq)))) \ {NoTimestamps}

\* SuppressBlankFilter is built with the prefilled index, zero.
SuppressBlankLeft(seq) ==
  IF seq = <<>> THEN Vocab \ {Blank, EndToken} ELSE Vocab

\* create_logits_filters.
Left(seq) ==
  LET blank == IF options.suppressBlank THEN SuppressBlankLeft(seq) ELSE Vocab
      suppressed == {token \in options.suppressTokens : token < EndToken}
      timed == IF options.withoutTimestamps THEN Vocab ELSE TimestampRulesLeft(seq)
  IN  (blank \cap timed) \ suppressed

-----------------------------------------------------------------------------
(* The loop. *)

LoopCount == Min({options.sampleLength, MaxContext - 1})
IsPrefill == index + 1 < PromptLength

\* A predicted time replaces a time in the last slot of the prompt; every
\* other prompt token is forced.
Slotted ==
  IF index + 1 = PromptLength /\ IsTime(tokens[index + 1]) /\ IsTime(next)
    THEN [tokens EXCEPT ![index + 1] = next] ELSE tokens

Running == ended = "no" /\ index < LoopCount

\* The step fails: what was observed before survives.
StepFails ==
  /\ Running /\ options \in Troubled
  /\ tokens' = Slotted
  /\ ended' = "failed"
  /\ UNCHANGED <<options, next, index, rows, observed, heard>>

\* What every step that predicts does: the language is latched before anything
\* can end the loop.
Predict(token) ==
  /\ Running
  /\ token \in Left(Slotted) \cap Sampleable
  /\ next' = token
  /\ heard' = IF IsPrefill THEN heard ELSE Append(heard, token)
  /\ observed' = IF ~IsPrefill /\ observed = None /\ token \in Languages
                   THEN {token} ELSE observed
  /\ UNCHANGED options

Completes(token, tooLow) ==
  \/ token = EndToken
  \/ Len(Slotted) >= MaxContext - 1
  \/ tooLow

TooLow == IF index = 0 /\ options.firstTokenThreshold THEN BOOLEAN ELSE {FALSE}

\* Slip: the row of the step that ends the loop is committed too.
CompleteWithItsRow(token) ==
  /\ Predict(token)
  /\ \E tooLow \in TooLow : Completes(token, tooLow)
  /\ tokens' = Slotted
  /\ ended' = "completed"
  /\ rows' = rows \cup {index + 1}
  /\ UNCHANGED index

Complete(token) ==
  /\ Predict(token)
  /\ \E tooLow \in TooLow : Completes(token, tooLow)
  /\ tokens' = Slotted
  /\ ended' = "completed"
  /\ UNCHANGED <<index, rows>>

\* A step that does not complete pushes its token, past the prompt; commits its
\* row, if the backend wrote one; and asks the callback, which may stop the
\* loop, past the prompt, or fail to decode its text.
Continue(token, wrote, verdict) ==
  /\ Predict(token)
  /\ \E tooLow \in TooLow : ~Completes(token, tooLow)
  /\ tokens' = IF IsPrefill THEN Slotted ELSE Append(Slotted, token)
  /\ rows' = IF wrote THEN rows \cup {index + 1} ELSE rows
  /\ index' = index + 1
  /\ ended' = IF verdict = "fail" THEN "failed"
              ELSE IF verdict = "stop" /\ ~IsPrefill THEN "stopped" ELSE "no"

Exhaust ==
  /\ ended = "no" /\ index = LoopCount
  /\ ended' = "exhausted"
  /\ UNCHANGED <<options, tokens, next, index, rows, observed, heard>>

Next ==
  \/ StepFails
  \/ \E token \in Sampleable : Complete(token)
  \/ \E token \in Sampleable,
        wrote \in BOOLEAN, verdict \in {"go", "stop", "fail"} :
       /\ options \in Troubled \/ (wrote /\ verdict # "fail")
       /\ Continue(token, wrote, verdict)
  \/ Exhaust

Spec == Init /\ [][Next]_vars

-----------------------------------------------------------------------------
(* finalize_decoding_result: from the start of the transcript to the end of *)
(* the text, which is appended when it is missing.                          *)

Finished == ended \in {"completed", "stopped", "exhausted"}

Finalized == IF Last(tokens) = EndToken THEN tokens ELSE Append(tokens, EndToken)
PositionOf(token) == Min({i \in DOMAIN Finalized : Finalized[i] = token}) - 1
SotOffset == PositionOf(StartOfTranscript)
Result == SubSeq(Finalized, SotOffset + 1, PositionOf(EndToken) + 1)

RowOf(i) == {SotOffset + i} \cap rows

-----------------------------------------------------------------------------
(* find_seek_point_and_segments, from its second phase on: the probability  *)
(* that skips a silent window is always zero.                               *)

Timed(i) == IsTime(Result[i])
EndsLike(pattern) ==
  /\ Len(Result) >= Len(pattern)
  /\ \A i \in DOMAIN pattern : Timed(Len(Result) - Len(pattern) + i) = pattern[i]
SingleTimestampEnding == EndsLike(<<FALSE, TRUE, FALSE>>)
NoTimestampEnding == EndsLike(<<FALSE, FALSE, FALSE>>)

\* The index of the second time of every pair.
SliceIndexes == {i - 1 : i \in {i \in 2..Len(Result) : Timed(i - 1) /\ Timed(i)}}

\* Where the slices end, a last one synthesized for the window's tail.
SliceEnds ==
  IF SliceIndexes = {} THEN {}
  ELSE SliceIndexes
       \cup (IF SingleTimestampEnding
               THEN {Max({i \in DOMAIN Result : Timed(i)})}
             ELSE IF NoTimestampEnding THEN {Len(Result)} ELSE {})

SliceTo(end) ==
  SubSeq(Result, Max({0} \cup {e \in SliceEnds : e < end}) + 1, end)

TimesIn(seq) == At(seq, {i \in DOMAIN seq : IsTime(seq[i])})

\* The segments, in time tokens from the window's start; without a pair the
\* window is one segment.
Segments ==
  IF SliceEnds = {}
    THEN LET late == {i \in DOMAIN Result : Result[i] > TimeBegin}
         IN  {[start |-> 0, end |-> IF late = {} THEN Window
                                    ELSE Result[Max(late)] - TimeBegin]}
    ELSE {[start |-> Head(TimesIn(SliceTo(end))) - TimeBegin,
           end |-> Last(TimesIn(SliceTo(end))) - TimeBegin] : end \in SliceEnds}

\* Slip: the window is consumed whatever its last pair says.
SeekPastTheWindow == Window

\* How far the seek moves.
SeekBy ==
  IF SliceEnds = {} \/ NoTimestampEnding THEN Window
  ELSE Result[Max(SliceEnds) + (IF SingleTimestampEnding THEN 0 ELSE 1)] - TimeBegin

-----------------------------------------------------------------------------
\* The tokens fit their context beside the prompt, and so do the rows.
TypeOK ==
  /\ options \in Options
  /\ tokens \in Seq(Vocab) /\ Len(tokens) <= Max({PromptLength, MaxContext - 1})
  /\ next \in Vocab
  /\ index \in 0..LoopCount
  /\ rows \subseteq 1..(MaxContext - 1)
  /\ Cardinality(observed) <= 1
  /\ ended \in {"no", "failed", "completed", "stopped", "exhausted"}

\* A result's token is timed by the row its own prediction left, or by none:
\* the accumulator still holds an earlier window's weights in every other row.
\* The end of text, which is never fed, has none.
RowsAreTheirTokens ==
  Finished =>
    /\ RowOf(Len(Result) - 1) = {}
    /\ \A i \in 0..(Len(Result) - 1) : \A row \in RowOf(i) :
         /\ row = SotOffset + i
         /\ row >= PromptLength => Result[i + 1] = heard[row - PromptLength + 1]

\* What is observed is the first language the model predicted past the prompt,
\* whether its step ended the window or a later one failed: never a forced one.
ObservedIsFirstPrediction ==
  LET spoken == {i \in DOMAIN heard : heard[i] \in Languages}
  IN  observed = IF spoken = {} THEN None ELSE {heard[Min(spoken)]}

\* TimestampRulesFilter's documentation, of what a window samples wherever its
\* task token is early enough for the rules to apply: times come in pairs
\* except at its two ends, do not decrease, and no word lies between two times
\* that are the same.
TimesComeInPairs ==
  ~options.withoutTimestamps =>
  \A begin \in EffectiveSampleBegin(tokens) :
    LET sampled == SubSeq(tokens, begin + 1, Len(tokens))
        timed == {i \in DOMAIN sampled : IsTime(sampled[i])}
    IN  /\ \A i, j \in timed : i < j => sampled[i] <= sampled[j]
        /\ \A i, j \in timed : i + 1 < j => sampled[i] < sampled[j]
        /\ \A i \in timed : i > 1 /\ i - 1 \notin timed =>
             i = Len(sampled) \/ sampled[i + 1] >= EndToken

\* The two `expect`s of the slicing: no slice is without a time.
SlicesAreTimed ==
  Finished => \A end \in SliceEnds : TimesIn(SliceTo(end)) # <<>>

\* No word is lost between two windows: it is in a segment of this window, or
\* the next one starts no later than the last time before the word.
WordsAreShownOrHeardAgain ==
  Finished /\ SliceEnds # {} =>
    \A i \in PromptLength - SotOffset + 1 .. Len(Result) :
      Result[i] \in Words =>
        \/ i <= Max(SliceEnds)
        \/ \E j \in 1..i : Timed(j) /\ SeekBy <= Result[j] - TimeBegin

\* What a step leaves is accounted to the step: tokens and rows fit their
\* context, each row is its own token's, and the observed language is the first
\* the model predicted past the prompt.
RowsFitTheirTokens == TypeOK /\ RowsAreTheirTokens /\ ObservedIsFirstPrediction

\* A decode keeps its books, and samples times as its rules document them.
DecodeHolds == RowsFitTheirTokens /\ TimesComeInPairs

\* The slices and the next window cover what was decoded: each slice has a
\* time, and each word is in one or is heard again.
NothingFallsBetweenWindows == SlicesAreTimed /\ WordsAreShownOrHeardAgain

\* TimestampRulesFilter's comment on its pairing rule: "to prevent infinite looping".  A window that does
\* not move the seek is decoded again, and again.
WindowAdvances == Finished => SeekBy > 0
=============================================================================
