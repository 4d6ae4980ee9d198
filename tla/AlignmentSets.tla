--------------------------- MODULE AlignmentSets ---------------------------
(***************************************************************************)
(* Forced alignment: sets of aligners by language, the characters of a     *)
(* text none of an aligner's letters spell, the caller's decisions about   *)
(* them, and the alignment of a chunk with these decisions.                *)
(*                                                                         *)
(* A decision is made at one time and applied at another: by then it may   *)
(* be handed to another set, for another language, with another text.  The *)
(* words and the lattice are the external seam's.                          *)
(***************************************************************************)
EXTENDS Integers, FiniteSets, Sequences, Spelling

CONSTANTS
  Aligners,          \* name -> [language, output, band]
  Languages,         \* languages asked for
  Texts,             \* name -> [odd, tokens]: characters unspelt, tokens to align
  ModelWindow, ReceptiveField, Hop,  \* of every aligner's model, in samples
  Lengths,           \* lengths of the chunks asked for
  MaxSets,           \* bound on the sets built
  MaxRegistered      \* bound on the aligners registered in them

\* A receptive field and a stride are NonZeroU32.
ASSUME GeometryAssumption ==
  /\ ReceptiveField \in Nat \ {0} /\ Hop \in Nat \ {0}
  /\ ModelWindow \in Nat /\ Lengths \subseteq Nat

VARIABLES
  builder,     \* [aligners: key -> name, fallback] of the set in the making
  sets,        \* the sets built: the n-th has id n
  detection,   \* the last detection not decided yet, or NoDetection
  resolution,  \* the last decisions not used yet, or NoResolution
  told         \* what the last alignment was asked and came to
setVars == <<builder, sets, detection, resolution, told>>

AnyLanguage == "any"
Fallbacks == {"SkipChunk", "Error"}
NoDetection == [made |-> 0]
NoResolution == [made |-> 0]
Undetected == [text |-> "none"]
NothingTold == [what |-> "nothing"]

-----------------------------------------------------------------------------
(* Building.                                                               *)

NewBuilder == [aligners |-> <<>>, fallback |-> "SkipChunk"]

\* A key that is a language takes an aligner of that language only (it panics
\* on another); a second aligner under a key replaces the first.
Registered == Cardinality(DOMAIN builder.aligners) + IF sets = <<>> THEN 0 ELSE Cardinality(DOMAIN sets[1].aligners)
Register(key, name) ==
  /\ Registered < MaxRegistered
  /\ key # AnyLanguage => Aligners[name].language = key
  /\ builder' = [builder EXCEPT !.aligners =
                   [k \in DOMAIN builder.aligners \cup {key} |->
                      IF k = key THEN name ELSE builder.aligners[k]]]
  /\ UNCHANGED <<sets, detection, resolution, told>>

SetFallback(fallback) ==
  /\ builder' = [builder EXCEPT !.fallback = fallback]
  /\ UNCHANGED <<sets, detection, resolution, told>>

Build ==
  /\ Len(sets) < MaxSets
  /\ sets' = Append(sets, builder)
  /\ builder' = NewBuilder
  /\ UNCHANGED <<detection, resolution, told>>

-----------------------------------------------------------------------------
(* Routing.                                                                *)

\* The language's own aligner, that of any language, or none.
Binding(set, language) ==
  CASE language \in DOMAIN set.aligners -> "Exact"
    [] language \notin DOMAIN set.aligners /\ AnyLanguage \in DOMAIN set.aligners -> "AnyFallback"
    [] OTHER -> "Miss"
Bound(set, language) ==
  IF Binding(set, language) = "Exact" THEN set.aligners[language] ELSE set.aligners[AnyLanguage]

-----------------------------------------------------------------------------
(* Detecting and deciding.                                                 *)

\* What an aligner reads of a text: which it is, who read it, and its events.
DetectedBy(name, text) == [text |-> text, aligner |-> name, events |-> Texts[text].odd]

Detect(id, language, text) ==
  /\ detection' = [made |-> id, language |-> language,
                   read |-> IF Binding(sets[id], language) = "Miss" THEN Undetected
                            ELSE DetectedBy(Bound(sets[id], language), text)]
  /\ UNCHANGED <<builder, sets, resolution, told>>

\* Every event is shown to the policy, under the requested language; a miss
\* has none to show.
Shown(of) ==
  IF of.read = Undetected THEN <<>>
  ELSE [i \in 1 .. of.read.events |-> [at |-> i, language |-> of.language]]
Decide ==
  /\ detection # NoDetection
  /\ \E decisions \in [DOMAIN Shown(detection) -> {"Wildcard", "FailClosed"}] :
       resolution' = [made |-> detection.made, language |-> detection.language,
                      read |-> detection.read, decisions |-> decisions]
  /\ detection' = NoDetection
  /\ UNCHANGED <<builder, sets, told>>

-----------------------------------------------------------------------------
(* Encoding.  A row of the emission matrix is the model's distribution, or *)
(* holds a saturated cell, or is not normalized, or is not finite.         *)

RowKinds == {"own", "saturated", "shifted", "notfinite"}
GeometryFrames(n) == IF n < ReceptiveField THEN 0 ELSE (n - ReceptiveField) \div Hop + 1
DeclaredFrames == GeometryFrames(ModelWindow)

\* Frames of the real samples: none of none, one of less than a field.
TruncatedFrameCount(real) ==
  LET padded == IF real < ReceptiveField THEN ReceptiveField ELSE real
      frames == GeometryFrames(padded)
  IN IF real = 0 THEN 0 ELSE IF frames < DeclaredFrames THEN frames ELSE DeclaredFrames

CheckSentinelBand(rows, band) == band => \A i \in DOMAIN rows : rows[i] # "saturated"
CheckLogProbNormalization(rows) == \A i \in DOMAIN rows : rows[i] # "shifted"
\* The seam's own scan of what it is handed.
SeamAccepts(rows) == \A i \in DOMAIN rows : rows[i] # "notfinite"

\* A head of log-probabilities is checked before it is handed on: the band,
\* then the normalization.  A head of logits is the seam's to normalize.
CheckValueDomain(rows, aligner) ==
  IF aligner.output = "Logits" THEN "ok"
  ELSE FirstOf(<< <<~CheckSentinelBand(rows, aligner.band), "CorruptEmissions">>,
                  <<~CheckLogProbNormalization(rows), "UnnormalizedEmissions">> >>)

\* What the seam hands to the encoder: the real samples, padded to one field.
EncoderInput(real) == [length |-> IF real < ReceptiveField THEN ReceptiveField ELSE real, real |-> real]
CheckWindow(input) == input.length <= ModelWindow

\* A prediction: it fails, comes in another shape, or brings the rows of the
\* whole window, of which those of the real samples are kept.
Emissions(aligner, input, prediction) ==
  LET rows == SubSeq(prediction.rows, 1, TruncatedFrameCount(input.real))
      domain == CheckValueDomain(rows, aligner)
  IN [rows |-> rows,
      what |-> FirstOf(<< <<~CheckWindow(input), "InputTooLong">>,
                          <<prediction.what # "ok", prediction.what>>,
                          <<domain # "ok", domain>> >>)]

-----------------------------------------------------------------------------
(* Aligning one chunk with one aligner.                                    *)

RefusedPositions(decided) == {i \in DOMAIN decided.decisions : decided.decisions[i] = "FailClosed"}

\* The seam prepares the chunk: decisions of another text or aligner are
\* refused, a text without tokens needs no encoder, and a position decided
\* fail-closed ends it.
Prepare(name, text, decided, aborted) ==
  FirstOf(<< <<aborted, "Aborted">>,
             <<decided.read.text # text \/ decided.read.aligner # name, "Tokenization">>,
             <<Texts[text].tokens = 0, "trivial">>,
             <<RefusedPositions(decided) # {}, "SemanticOutOfVocab">> >>)

\* The seam finishes it: rows it will not take, tokens the frames cannot carry,
\* words no speech covers.
Finish(text, rows, speech) ==
  FirstOf(<< <<~SeamAccepts(rows), "Emissions">>,
             <<Len(rows) < Texts[text].tokens, "NoAlignmentPath">>,
             <<speech = "none", "NoSurvivingWords">> >>)

\* Aligner::align_chunk.  A refusal names the positions; what the seam says
\* otherwise, but for a chunk without a path, is its own error.
SeamError(said, refused) ==
  CASE said = "SemanticOutOfVocab" /\ refused # {} -> "Refused"
    [] said = "NoAlignmentPath" -> "NoAlignmentPath"
    [] OTHER -> "Alignment"

Aligned == {"words", "NoSurvivingWords"}
Corrupt == {"CorruptEmissions", "UnnormalizedEmissions"}

AlignWith(name, c, decided) ==
  LET refused == RefusedPositions(decided)
      prepared == Prepare(name, c.text, decided, c.aborted)
      heard == Emissions(Aligners[name], EncoderInput(c.samples), c.prediction)
      finished == Finish(c.text, heard.rows, c.speech)
      what == FirstOf(<<
        <<c.samples > ModelWindow, "InputTooLong">>,
        <<c.speech = "othertimebase", "Span">>,
        <<prepared \notin {"ok", "trivial"}, SeamError(prepared, refused)>>,
        <<prepared = "trivial", "NoAlignableText">>,
        <<c.samples = 0, "NoAlignmentPath">>,
        <<heard.what # "ok", heard.what>>,
        <<finished = "NoSurvivingWords", "NoSurvivingWords">>,
        <<finished # "ok", SeamError(finished, refused)>> >>)
      spoken == IF what = "ok" THEN "words" ELSE what
  IN [what |-> spoken,
      refused |-> {[at |-> i, language |-> Aligners[name].language] : i \in refused},
      rows |-> IF spoken \in Aligned \cup Corrupt THEN heard.rows ELSE <<>>]

-----------------------------------------------------------------------------
(* Aligning through a set: its own decisions, decided for this language.   *)

\* Slip: the language the decisions were made for is not asked.
CheckMaker(id, language, decided) == IF decided.made # id THEN "ForeignResolution" ELSE "ok"

CheckResolution(id, language, decided) ==
  FirstOf(<< <<decided.made # id, "ForeignResolution">>,
             <<decided.language # language, "DecisionLanguage">> >>)

\* A refusal is told under the requested language, whoever refused.
ForRequest(came, language) ==
  [came EXCEPT !.refused = {[position EXCEPT !.language = language] : position \in came.refused}]

Answered(set, language, c, decided) ==
  LET missed == Binding(set, language) = "Miss"
      undecided == decided.read = Undetected
      Said(what) == [what |-> what, rows |-> <<>>, refused |-> {}]
  IN IF missed # undecided THEN Said("MisroutedResolution")
     ELSE IF missed THEN Said(IF set.fallback = "SkipChunk" THEN "Skipped" ELSE "LanguageUnsupported")
     ELSE ForRequest(AlignWith(Bound(set, language), c, decided), language)

Predictions ==
  [what : {"ok"}, rows : [1 .. DeclaredFrames -> RowKinds]]
  \cup [what : {"Prediction", "Tensor", "OutputShape"}, rows : {[i \in 1 .. DeclaredFrames |-> "own"]}]
PlainChunk(text) ==
  [text |-> text, samples |-> ModelWindow, speech |-> "all", aborted |-> FALSE,
   prediction |-> [what |-> "ok", rows |-> [i \in 1 .. DeclaredFrames |-> "own"]]]
Chunks(text) ==
  {[PlainChunk(text) EXCEPT !.samples = n, !.prediction = p] : n \in Lengths, p \in Predictions}
  \cup {[PlainChunk(text) EXCEPT !.speech = s] : s \in {"some", "none", "othertimebase"}}
  \cup {[PlainChunk(text) EXCEPT !.aborted = TRUE]}
\* The chunk matters only to the aligner the decisions get it to.
ChunksFor(id, language, text) ==
  IF CheckResolution(id, language, resolution) = "ok" /\ resolution.read.text = text
  THEN Chunks(text) ELSE {PlainChunk(text)}

\* The decisions are used up, whatever comes of them.
AlignChunk(id, language, c) ==
  /\ resolution # NoResolution
  /\ LET check == CheckResolution(id, language, resolution)
         came == IF check = "ok" THEN Answered(sets[id], language, c, resolution)
                 ELSE [what |-> check, rows |-> <<>>, refused |-> {}]
     IN told' = [what |-> came.what, set |-> id, language |-> language, text |-> c.text,
                 samples |-> c.samples, decided |-> resolution,
                 rows |-> came.rows, refused |-> came.refused]
  /\ resolution' = NoResolution
  /\ UNCHANGED <<builder, sets, detection>>

-----------------------------------------------------------------------------
AlignInit ==
  /\ builder = NewBuilder
  /\ sets = <<>>
  /\ detection = NoDetection
  /\ resolution = NoResolution
  /\ told = NothingTold

\* Once told, a run of the model ends: what was told changes nothing else.
AlignNext ==
  /\ told = NothingTold
  /\ \/ Len(sets) < MaxSets /\ \E key \in Languages \cup {AnyLanguage}, name \in DOMAIN Aligners : Register(key, name)
     \/ Len(sets) < MaxSets /\ \E fallback \in Fallbacks : SetFallback(fallback)
     \/ Build
     \/ \E id \in DOMAIN sets, language \in Languages, text \in DOMAIN Texts :
          detection = NoDetection /\ resolution = NoResolution /\ Detect(id, language, text)
     \/ Decide
     \/ \E id \in DOMAIN sets, language \in Languages, text \in DOMAIN Texts :
          resolution # NoResolution /\ \E c \in ChunksFor(id, language, text) : AlignChunk(id, language, c)

-----------------------------------------------------------------------------
(* Properties.                                                             *)

Bindings == {"ForeignResolution", "DecisionLanguage"}

\* Decisions answer what they were made for: an answer of a set, its miss
\* policy's too, rests on decisions of that set and language, and words on
\* decisions about this text, read by the aligner the route leads to.
DecisionsAnswerTheirRequest ==
  told # NothingTold /\ told.what \notin Bindings =>
    /\ told.decided.made = told.set /\ told.decided.language = told.language
    /\ told.what \in Aligned =>
         /\ told.decided.read.text = told.text
         /\ told.decided.read.aligner = Bound(sets[told.set], told.language)

\* A set's own decisions always fit its route: it cannot change in between.
NeverMisrouted == told.what # "MisroutedResolution"

\* A refusal names every position refused, at least one, each under the
\* language that was asked for, and nothing that
\* was refused is aligned or passed over.
RefusalsAreNamed ==
  told # NothingTold /\ told.what \notin Bindings =>
    /\ told.what = "Refused" =>
         /\ told.refused # {}
         /\ told.refused = {[at |-> i, language |-> told.language] : i \in RefusedPositions(told.decided)}
    /\ told.what \in Aligned => RefusedPositions(told.decided) = {}

\* A language is passed over only where the set has no aligner for it, and one
\* that has its own is never another's.
RoutesAreStrict ==
  told.what \in {"Skipped", "LanguageUnsupported"} =>
    DOMAIN sets[told.set].aligners \cap {told.language, AnyLanguage} = {}

WordsRestOnOwnRows ==
  told.what \in Aligned =>
    /\ told.samples > 0
    /\ Len(told.rows) = TruncatedFrameCount(told.samples)
    /\ LET aligner == Aligners[told.decided.read.aligner]
       IN aligner.output = "LogProbabilities" =>
            \A i \in DOMAIN told.rows :
              told.rows[i] \in {"own"} \cup IF aligner.band THEN {} ELSE {"saturated"}

\* Words rest on rows of the chunk's real samples, every one a distribution of
\* the model's where the contract lets it be told; what the padding came to
\* refuses none of them.
WordsRestOnTheModel ==
  /\ told.what \in Corrupt => \E i \in DOMAIN told.rows : told.rows[i] # "own"
  /\ WordsRestOnOwnRows

DecisionsHold ==
  /\ DecisionsAnswerTheirRequest /\ NeverMisrouted /\ RefusalsAreNamed
  /\ RoutesAreStrict /\ WordsRestOnTheModel
=============================================================================
